---- MODULE Spec2Model ----
(***************************************************************************)
(* Model of the RAG backend (backend/ingest.py, backend/app.py,            *)
(* backend/rag.py): the persisted index record (faiss.index, meta.json,    *)
(* embedder_config.json), the docs folder, the operations that mutate or   *)
(* load them, and the hybrid retriever.                                    *)
(***************************************************************************)
EXTENDS Integers, Sequences, FiniteSets, TLC

\* ------------------------------------------------------------------------
\* Bounds
\* ------------------------------------------------------------------------
\* files in one /ingest request
MaxBatch == 2
\* vectors in faiss.index in the interleaved runs (an append onto an index
\* that is ahead of meta.json grows it without limit)
MaxVecs == 2

\* The largest k a search is asked for.
MaxK == 2

\* _balanced_diversify on its own: candidates in the list, largest k.
MaxCands == 6

MaxDivK == 6

\* passages handed to build_prompt_clipped
MaxPassages == 2

\* characters of a text handed to _smart_chunk
MaxText == 6

\* scores handed to np.argsort with every order of equal scores
MaxScored == 4

\* ------------------------------------------------------------------------
\* Values
\* ------------------------------------------------------------------------
\* File names are character sequences ("r" stands for report.pdf, "r1" for
\* report1.pdf: the first is a substring of the second).
F1 == <<"r">>
F2 == <<"r", "1">>
Filenames == {F1, F2}

\* Chunk texts are character sequences as well.
T1 == <<"x">>
T2 == <<"1", "x">>
Texts == {T1, T2}
Pages == {1}

\* Embedding model ids and the dimension of the vectors each one produces.
Models == {"e5-base", "bge-base", "minilm"}
Dim(m) == IF m = "minilm" THEN 384 ELSE 768

\* What _extract_file_chunks yields for a file, without the file name: a
\* sequence of <<text, page>>.  A file has no extractable text, one chunk or
\* two chunks.
Contents == {<<>>, <<<<T1, 1>>>>, <<<<T1, 1>>, <<T2, 1>>>>}

Batches == UNION {[1..n -> Filenames] : n \in 1..MaxBatch}

\* Absent files of the store and of the docs folder.
NoIndex == [exists |-> FALSE, d |-> 0, vecs |-> <<>>]
NoMeta == [exists |-> FALSE, chunks |-> <<>>, sources |-> <<>>, pages |-> <<>>]
NoCfg == [exists |-> FALSE, model_id |-> "none"]
NoDoc == [exists |-> FALSE, content |-> <<>>]

\* ------------------------------------------------------------------------
\* Sequence helpers
\* ------------------------------------------------------------------------
Range(s) == {s[i] : i \in 1..Len(s)}

Min(a, b) == IF a < b THEN a ELSE b

Take(s, n) == SubSeq(s, 1, Min(n, Len(s)))

\* zip(chunks, sources, pages): stops at the shortest.
Zip(chs, srcs, pgs) ==
    [i \in 1..Min(Len(chs), Min(Len(srcs), Len(pgs))) |-> <<chs[i], srcs[i], pgs[i]>>]

MetaEntries(m) == Zip(m.chunks, m.sources, m.pages)

RECURSIVE Flatten(_)
Flatten(ss) == IF ss = <<>> THEN <<>> ELSE Head(ss) \o Flatten(Tail(ss))

\* str.lower() on one character and on a string.
LowerChar(c) == CASE c = "R" -> "r" [] c = "X" -> "x" [] OTHER -> c
lower(s) == [i \in 1..Len(s) |-> LowerChar(s[i])]

\* a in b, for strings.
IsSubstring(a, b) ==
    \E i \in 0..(Len(b) - Len(a)) : SubSeq(b, i + 1, i + Len(a)) = a

\* ------------------------------------------------------------------------
\* ingest.py: dedup key, extraction, embedding
\* ------------------------------------------------------------------------
DigitChar(d) ==
    CASE d = 0 -> "0" [] d = 1 -> "1" [] d = 2 -> "2" [] d = 3 -> "3" [] d = 4 -> "4"
      [] d = 5 -> "5" [] d = 6 -> "6" [] d = 7 -> "7" [] d = 8 -> "8" [] d = 9 -> "9"

\* str(int(page))
RECURSIVE Str(_)
Str(p) == IF p < 10 THEN <<DigitChar(p)>> ELSE Str(p \div 10) \o <<DigitChar(p % 10)>>

\* _hash_key: sha1 over the concatenation source, str(page), text.  sha1 is
\* taken as injective on its input, so the key is the input itself.
_hash_key(source, page, text) ==
    (IF source = <<>> THEN <<"u", "n", "k", "n", "o", "w", "n">> ELSE source)
        \o Str(IF page = 0 THEN 1 ELSE page) \o text

KeyOf(e) == _hash_key(e[2], e[3], e[1])

\* _extract_file_chunks(f): (chunk, f.name, page) for every chunk of the file.
_extract_file_chunks(d, f) ==
    [i \in 1..Len(d[f].content) |-> <<d[f].content[i][1], f, d[f].content[i][2]>>]

\* ex.map(_extract_file_chunks, files), flattened in file order.
ExtractAll(d, files) ==
    Flatten([i \in 1..Len(files) |-> _extract_file_chunks(d, files[i])])

\* _Embedder.encode_docs: the vector of a text under a model.
encode_docs(m, texts) == [i \in 1..Len(texts) |-> <<m, texts[i]>>]

\* Intra-batch dedup: keep the first entry of every key.
RECURSIVE IntraBatchDedup(_, _)
IntraBatchDedup(es, seen_keys) ==
    IF es = <<>> THEN <<>>
    ELSE IF KeyOf(Head(es)) \in seen_keys
         THEN IntraBatchDedup(Tail(es), seen_keys)
         ELSE <<Head(es)>> \o IntraBatchDedup(Tail(es), seen_keys \cup {KeyOf(Head(es))})

\* _build_keys: the keys of the previously indexed entries.
_build_keys(chs, srcs, pgs) ==
    IF chs = <<>> THEN {} ELSE {KeyOf(e) : e \in Range(Zip(chs, srcs, pgs))}

\* Mutation of NotInPrev: the lookup in prev_keys is skipped.
NotInPrev_nolookup(e, prev_keys) == TRUE

NotInPrev(e, prev_keys) == KeyOf(e) \notin prev_keys

\* Dedup against the previous index.
DedupAgainstPrev(es, prev_keys) == SelectSeq(es, LAMBDA e : NotInPrev(e, prev_keys))

\* _save_index_and_meta: the assertion that guards every persist.
SaveAssert(chs, srcs, pgs) == Len(chs) = Len(srcs) /\ Len(srcs) = Len(pgs)

\* What build_or_update_index computes from what it read (the three store
\* files as read, the extracted triplets) and the configured model.
build_or_update_index(ridx, rmeta, rcfg, extracted, cur) ==
    LET have_prev == ridx.exists /\ rmeta.exists
        prev_chunks == IF have_prev THEN rmeta.chunks ELSE <<>>
        prev_sources == IF have_prev THEN rmeta.sources ELSE <<>>
        prev_pages == IF have_prev THEN rmeta.pages ELSE <<>>
        uniq == IntraBatchDedup(extracted, {})
        prev_keys == _build_keys(prev_chunks, prev_sources, prev_pages)
        dedup_new == DedupAgainstPrev(uniq, prev_keys)
        new_chunks == [i \in 1..Len(dedup_new) |-> dedup_new[i][1]]
        new_sources == [i \in 1..Len(dedup_new) |-> dedup_new[i][2]]
        new_pages == [i \in 1..Len(dedup_new) |-> dedup_new[i][3]]
        all_chunks == prev_chunks \o new_chunks
        all_sources == prev_sources \o new_sources
        all_pages == prev_pages \o new_pages
        rebuild == ~have_prev \/ (rcfg.exists /\ rcfg.model_id # cur)
        new_index == IF rebuild
                     THEN [exists |-> TRUE, d |-> Dim(cur), vecs |-> encode_docs(cur, all_chunks)]
                     ELSE [exists |-> TRUE, d |-> ridx.d,
                           vecs |-> ridx.vecs \o encode_docs(cur, new_chunks)]
        failed == (rebuild /\ all_chunks = <<>>) \/ ~SaveAssert(all_chunks, all_sources, all_pages)
    IN  [ok |-> ~failed,
         path |-> IF failed THEN "error" ELSE IF rebuild THEN "rebuild" ELSE "append",
         index |-> new_index,
         meta |-> [exists |-> TRUE, chunks |-> all_chunks, sources |-> all_sources,
                   pages |-> all_pages],
         cfg |-> [exists |-> TRUE, model_id |-> cur],
         added |-> Len(new_chunks)]

\* rebuild_index_from_meta: re-embeds every chunk of meta.json with the
\* configured model.  An empty chunk list has no X.shape[1]: it raises.
rebuild_index_from_meta(rmeta, cur) ==
    LET failed == ~rmeta.exists \/ rmeta.chunks = <<>>
                    \/ ~SaveAssert(rmeta.chunks, rmeta.sources, rmeta.pages)
    IN  [ok |-> ~failed,
         index |-> [exists |-> TRUE, d |-> Dim(cur), vecs |-> encode_docs(cur, rmeta.chunks)],
         meta |-> [exists |-> TRUE, chunks |-> rmeta.chunks, sources |-> rmeta.sources,
                   pages |-> rmeta.pages],
         cfg |-> [exists |-> TRUE, model_id |-> cur]]

\* (xs + [filler] * ln)[:ln]
PadTo(xs, filler, ln) == [i \in 1..ln |-> IF i <= Len(xs) THEN xs[i] ELSE filler]

\* load_index_safe, first check: both store files must exist.
StoreLoadable(ridx, rmeta) == ridx.exists /\ rmeta.exists

\* Mutation of NeedsRebuild: only the dimension is compared.
NeedsRebuild_dimonly(ridx, rcfg, cur) == ridx.d # Dim(cur)

\* load_index_safe, the two conditions that send it to a rebuild.
NeedsRebuild(ridx, rcfg, cur) ==
    \/ rcfg.exists /\ rcfg.model_id # cur
    \/ ridx.d # Dim(cur)

\* load_index_safe on what it read: kind is "notfound" (FileNotFoundError),
\* "error" (the rebuild raised), "rebuilt" or "loaded".
load_index_safe(ridx, rmeta, rcfg, cur) ==
    IF ~StoreLoadable(ridx, rmeta)
    THEN [kind |-> "notfound", index |-> NoIndex, chunks |-> <<>>, sources |-> <<>>,
          pages |-> <<>>]
    ELSE IF NeedsRebuild(ridx, rcfg, cur)
    THEN LET r == rebuild_index_from_meta(rmeta, cur)
         IN  IF r.ok
             THEN [kind |-> "rebuilt", index |-> r.index, chunks |-> r.meta.chunks,
                   sources |-> r.meta.sources, pages |-> r.meta.pages]
             ELSE [kind |-> "error", index |-> NoIndex, chunks |-> <<>>, sources |-> <<>>,
                   pages |-> <<>>]
    ELSE [kind |-> "loaded", index |-> ridx, chunks |-> rmeta.chunks,
          sources |-> PadTo(rmeta.sources, <<"u", "n", "k", "n", "o", "w", "n">>,
                            Len(rmeta.chunks)),
          pages |-> PadTo(rmeta.pages, 1, Len(rmeta.chunks))]

\* Mutation of KeepSource: the loose match of rag.search instead of equality.
KeepSource_substring(s, filename) == ~IsSubstring(lower(filename), lower(s))

\* delete_document: the test that keeps an entry of meta.json.
KeepSource(s, filename) == s # filename

\* delete_document: keep_indices.
keep_indices(srcs, filename) ==
    SelectSeq([i \in 1..Len(srcs) |-> i], LAMBDA i : KeepSource(srcs[i], filename))

\* Mutation of FilterMeta: the pages array is written back unfiltered.
FilterMeta_keeppages(rmeta, filename) ==
    LET keep == keep_indices(rmeta.sources, filename)
        failed == \E j \in 1..Len(keep) : keep[j] > Len(rmeta.chunks)
    IN  [ok |-> ~failed,
         meta |-> IF failed THEN rmeta
                  ELSE [exists |-> TRUE,
                        chunks |-> [j \in 1..Len(keep) |-> rmeta.chunks[keep[j]]],
                        sources |-> [j \in 1..Len(keep) |-> rmeta.sources[keep[j]]],
                        pages |-> rmeta.pages],
         removed |-> IF failed THEN 0 ELSE Len(rmeta.chunks) - Len(keep)]

\* delete_document: the filtered meta.json; chunks[i] or pages[i] past the
\* end of a shorter array raises IndexError.
FilterMeta(rmeta, filename) ==
    LET keep == keep_indices(rmeta.sources, filename)
        failed == \E j \in 1..Len(keep) :
                     keep[j] > Len(rmeta.chunks) \/ keep[j] > Len(rmeta.pages)
    IN  [ok |-> ~failed,
         meta |-> IF failed THEN rmeta
                  ELSE [exists |-> TRUE,
                        chunks |-> [j \in 1..Len(keep) |-> rmeta.chunks[keep[j]]],
                        sources |-> [j \in 1..Len(keep) |-> rmeta.sources[keep[j]]],
                        pages |-> [j \in 1..Len(keep) |-> rmeta.pages[keep[j]]]],
         removed |-> IF failed THEN 0 ELSE Len(rmeta.chunks) - Len(keep)]

\* ingest_files / ingest_all_from_folder: IngestResponse.chunks_indexed.
chunks_indexed(res) == Len(res.meta.chunks)

\* ------------------------------------------------------------------------
\* rag.py, enhanced_retrieval.py: hybrid retrieval
\* ------------------------------------------------------------------------
Max(a, b) == IF a > b THEN a ELSE b

\* The rankings of n of the elements of S (a score order, ties in any order).
Orders(S, n) == {o \in [1..n -> S] : \A i, j \in 1..n : i # j => o[i] # o[j]}

\* str.strip()
RECURSIVE strip(_)
strip(s) ==
    IF s # <<>> /\ Head(s) = " " THEN strip(Tail(s))
    ELSE IF s # <<>> /\ s[Len(s)] = " " THEN strip(SubSeq(s, 1, Len(s) - 1))
    ELSE s

\* The code point order of the characters in use, and the str order it gives.
CharCode(c) ==
    CASE c = " " -> 32 [] c = "*" -> 42 [] c = "1" -> 49 [] c = "R" -> 82
      [] c = "X" -> 88 [] c = "r" -> 114 [] c = "x" -> 120 [] OTHER -> 122

RECURSIVE StrLess(_, _)
StrLess(a, b) ==
    IF b = <<>> THEN FALSE
    ELSE IF a = <<>> THEN TRUE
    ELSE IF Head(a) # Head(b) THEN CharCode(Head(a)) < CharCode(Head(b))
    ELSE StrLess(Tail(a), Tail(b))

\* sorted(S) for a set of str
RECURSIVE sorted(_)
sorted(S) ==
    IF S = {} THEN <<>>
    ELSE LET m == CHOOSE x \in S : \A y \in S \ {x} : StrLess(x, y)
         IN  <<m>> \o sorted(S \ {m})

\* A candidate is (idx, score, text).  Chunk indices count from 1 here and
\* from 0 in the code; a score is kept as the text of its literal ("D": the
\* inner product FAISS returned).
Cand(i, score, chunks) == <<i, score, chunks[i]>>

\* The union of the candidate lists, first occurrence of each idx kept.
MergeCands(cands, seen) ==
    LET first == SelectSeq([i \in 1..Len(cands) |-> i],
                           LAMBDA i : /\ cands[i][1] \notin seen
                                      /\ \A j \in 1..(i - 1) : cands[j][1] # cands[i][1])
    IN  [j \in 1..Len(first) |-> cands[first[j]]]

\* _bm25_topk: bm25 is argsort(scores)[::-1], an order of all chunks.
_bm25_topk(bm25, topn) == Take(bm25, topn)

\* _ensure_dim_match
_ensure_dim_match(idx, cur) == idx.d = Dim(cur)

\* The test of doc_indices on one source.
SourceMatches(s, fs) == s # <<>> /\ (lower(s) = fs \/ IsSubstring(fs, lower(s)))

\* The test of the list named exact on one source.
ExactMatches(s, fs) == lower(s) = fs \/ IsSubstring(fs, lower(s))

\* A diversification that is only the truncation of the candidates to k.
_balanced_diversify_truncate(candidates, sources, k) == Take(candidates, k)

\* Mutation of _balanced_diversify: the sources are visited in the order of
\* their first candidate, not in alphabetical order.
_balanced_diversify_unsorted(candidates, sources, k) ==
    LET by_source(s) == SelectSeq(candidates, LAMBDA c : sources[c[1]] = s)
        firsts == SelectSeq([i \in 1..Len(candidates) |-> i],
                            LAMBDA i : \A j \in 1..(i - 1) :
                                sources[candidates[j][1]] # sources[candidates[i][1]])
        available_sources == [j \in 1..Len(firsts) |-> sources[candidates[firsts[j]][1]]]
        round(r) == LET has == SelectSeq(available_sources, LAMBDA s : r <= Len(by_source(s)))
                    IN  [i \in 1..Len(has) |-> by_source(has[i])[r]]
    IN  Take(Flatten([r \in 1..Len(candidates) |-> round(r)]), k)

\* _balanced_diversify: round r takes the r-th candidate of every source that
\* has one, sources in sorted order, until k are taken.
_balanced_diversify(candidates, sources, k) ==
    LET by_source(s) == SelectSeq(candidates, LAMBDA c : sources[c[1]] = s)
        available_sources == sorted({sources[c[1]] : c \in Range(candidates)})
        round(r) == LET has == SelectSeq(available_sources,
                                         LAMBDA s : r <= Len(by_source(s)))
                    IN  [i \in 1..Len(has) |-> by_source(has[i])[r]]
    IN  Take(Flatten([r \in 1..Len(candidates) |-> round(r)]), k)

\* CrossEncoderReranker.rerank; rer.loaded: a relevance model could be
\* loaded, rer.order: the positions argsort(scores)[::-1] of a passage list
\* as long as the corpus (the first len(passages) of them are used).
RerankCap == 64

\* CrossEncoderReranker.rerank: the passages handed to model.predict.
pairs(passages) == Take(passages, Min(RerankCap, Len(passages)))

\* Mutation of rerank: the passages stay in their input order.
rerank_inputorder(passages, top_k, rer) == Take(passages, top_k)

rerank(passages, top_k, rer) ==
    IF ~rer.loaded \/ passages = <<>> THEN Take(passages, top_k)
    ELSE LET m == Min(RerankCap, Len(passages))
             order == SelectSeq(rer.order, LAMBDA p : p <= m)
         IN  [i \in 1..Min(top_k, m) |-> passages[order[i]]]

\* rag.search.  dense: the order in which FAISS ranks the vectors of the
\* index; bm25: the order in which BM25 ranks the chunks; rer: the reranker.
\* A filter_source of None is the empty string here (both are falsy).
\* Answers [ok, merged, hits]: ok is FALSE when the call raises, merged is
\* the candidate list handed to the reranker, hits the list returned.
NoHits == [ok |-> TRUE, merged |-> <<>>, hits |-> <<>>]

Raised == [ok |-> FALSE, merged |-> <<>>, hits |-> <<>>]

search(idx, chunks, k, sources, filter_source, diversify, cur, dense, bm25, rer) ==
    LET search_in_corpus == filter_source = <<>> \/ strip(filter_source) = <<>>
        kk == Min(Max(k * 8, 80), Len(chunks))
        I == Take(dense, kk)
        vec_cands == [i \in 1..Len(I) |-> Cand(I[i], "D", chunks)]
        bm25_idxs == _bm25_topk(bm25, Min(Max(k * 6, 60), Len(chunks)))
        bm25_cands == [i \in 1..Len(bm25_idxs) |-> Cand(bm25_idxs[i], "0.0", chunks)]
        union == MergeCands(vec_cands \o bm25_cands, {})
        seen == {c[1] : c \in Range(union)}
        fs == lower(strip(filter_source))
        doc_indices == SelectSeq([i \in 1..Len(sources) |-> i],
                                 LAMBDA i : SourceMatches(sources[i], fs))
        missing == SelectSeq(doc_indices, LAMBDA i : i \notin seen)
        forced == union \o [i \in 1..Len(missing) |-> Cand(missing[i], "0.1", chunks)]
        exact == SelectSeq(forced, LAMBDA c : ExactMatches(sources[c[1]], fs))
        fallback == LET head == Take(doc_indices, Min(k, Len(doc_indices)))
                    IN  [i \in 1..Len(head) |-> Cand(head[i], "0.5", chunks)]
        filtered == IF exact # <<>> THEN exact ELSE fallback
        expanded_k == Min(k * 10, Len(union))
        by_file == ~search_in_corpus /\ sources # <<>>
        balanced == diversify /\ sources # <<>> /\ search_in_corpus
                    /\ Cardinality(Range(sources)) > 1
        \* chunks[i] or sources[i] with i out of range raises IndexError
        IndexError ==
            \/ \E i \in Range(I) : i > Len(chunks)
            \/ by_file /\ \E i \in Range(missing) : i > Len(chunks)
            \/ by_file /\ \E i \in seen : i > Len(sources)
            \/ balanced /\ \E c \in Range(Take(union, expanded_k)) : c[1] > Len(sources)
        merged ==
            IF by_file THEN filtered
            ELSE IF balanced THEN _balanced_diversify(Take(union, expanded_k), sources, k)
            ELSE union
    IN  IF chunks = <<>> THEN NoHits
        ELSE IF ~_ensure_dim_match(idx, cur) \/ IndexError THEN Raised
        ELSE IF by_file /\ doc_indices = <<>> THEN NoHits
        ELSE [ok |-> TRUE, merged |-> merged, hits |-> Take(rerank(merged, k, rer), k)]

\* ------------------------------------------------------------------------
\* Query cache (cache.py)
\* ------------------------------------------------------------------------
\* get_query_cache(max_size=100, ttl=settings.cache_ttl_seconds)
CacheMaxSize == 100

CacheTtl == 300

\* QueryCache.__init__. _cache is a dict: its entries in insertion order.
\* (The counters _hits and _misses are left out.)
QueryCache(max_size, default_ttl) ==
    [max_size |-> max_size, default_ttl |-> default_ttl, cache |-> <<>>]

AppCache == QueryCache(CacheMaxSize, CacheTtl)

\* CacheEntry.__init__ and is_expired, at time t.
CacheEntry(key, value, ttl_seconds, t) ==
    [key |-> key, value |-> value, created_at |-> t, expires_at |-> t + ttl_seconds]

is_expired(entry, t) == t > entry.expires_at

\* _generate_key: sha256 of the JSON of the stripped, lower-cased question and
\* source; the key is taken as that pair.  A source of None is "".
_generate_key(question, source) == <<lower(strip(question)), lower(strip(source))>>

CacheKeys(c) == {c.cache[i].key : i \in 1..Len(c.cache)}

EntryAt(c, key) == CHOOSE i \in 1..Len(c.cache) : c.cache[i].key = key

Without(c, key) == [c EXCEPT !.cache = SelectSeq(c.cache, LAMBDA e : e.key # key)]

\* QueryCache.get at time t: [hit, value, qc]; an expired entry is deleted.
NoValue == [kind |-> "None"]

cache_get(c, key, t) ==
    IF key \notin CacheKeys(c) THEN [hit |-> FALSE, value |-> NoValue, qc |-> c]
    ELSE IF is_expired(c.cache[EntryAt(c, key)], t)
    THEN [hit |-> FALSE, value |-> NoValue, qc |-> Without(c, key)]
    ELSE [hit |-> TRUE, value |-> c.cache[EntryAt(c, key)].value, qc |-> c]

\* _evict_oldest: min() over the keys by created_at gives the first of the
\* entries created earliest.
_evict_oldest(c) ==
    IF c.cache = <<>> THEN c
    ELSE LET oldest == CHOOSE i \in 1..Len(c.cache) :
                           /\ \A j \in 1..Len(c.cache) :
                                 c.cache[i].created_at <= c.cache[j].created_at
                           /\ \A j \in 1..(i - 1) :
                                 c.cache[j].created_at # c.cache[i].created_at
         IN  Without(c, c.cache[oldest].key)

\* QueryCache.set at time t (ttl = None).  Assigning to a key of the dict
\* keeps the key's place; a new key goes to the end.
cache_set(c, key, value, t) ==
    LET room == IF Len(c.cache) >= c.max_size /\ key \notin CacheKeys(c)
                THEN _evict_oldest(c) ELSE c
        entry == CacheEntry(key, value, c.default_ttl, t)
    IN  IF key \in CacheKeys(room)
        THEN [room EXCEPT !.cache[EntryAt(room, key)] = entry]
        ELSE [room EXCEPT !.cache = Append(room.cache, entry)]

\* QueryCache.clear
cache_clear(c) == [c EXCEPT !.cache = <<>>]

\* The order of use after key was set or read, for the keys still held.
Touch(lru, key, c) ==
    SelectSeq(lru, LAMBDA k : k # key /\ k \in CacheKeys(c)) \o
        (IF key \in CacheKeys(c) THEN <<key>> ELSE <<>>)

\* rag._bm25 is None.
NoBm25 == [built |-> FALSE, len |-> 0, corpus |-> <<>>]

\* _ensure_bm25: the index is rebuilt when there is none or when the number
\* of chunks differs from the number it was built from.
_ensure_bm25(b, chunks) ==
    IF ~b.built \/ b.len # Len(chunks)
    THEN [built |-> TRUE, len |-> Len(chunks), corpus |-> chunks]
    ELSE b

\* No /ask request yet.  from_cache, stamp and searched are history: whether
\* the response came from the cache, the entries of the store it was computed
\* from, and the chunk list rag.search scored with BM25 (searched: it did).
NoResp == [asked |-> FALSE, key |-> <<>>, status |-> 0, from_cache |-> FALSE,
           cached |-> FALSE, citations |-> <<>>, stamp |-> <<>>,
           searched |-> FALSE, chunks |-> <<>>]

\* ------------------------------------------------------------------------
\* State
\* ------------------------------------------------------------------------
VARIABLES
    docs,     \* data/docs: file name -> [exists, content]
    index,    \* data/store/faiss.index: [exists, d, vecs]
    meta,     \* data/store/meta.json: [exists, chunks, sources, pages]
    cfg,      \* data/store/embedder_config.json: [exists, model_id]
    model,    \* config.EMBEDDING_MODEL_ID of the running process
    live,     \* history: entries an ingest persisted, minus those of deleted documents
    last,     \* history: the last completed request and what it answered
    pc,       \* thread -> where its request stands ("idle": none in progress)
    loc,      \* thread -> the locals of its request
    found,    \* history: the last call of rag.search and what it returned
    call,     \* a call of one function on its own: its arguments and result
    qc,       \* app.query_cache: the QueryCache object
    now,      \* datetime.utcnow(), in seconds
    recent,   \* history: the keys of the cache, least recently used first
    _bm25,    \* rag._bm25 and rag._bm25_len: the lexical index in memory
    resp      \* history: the last /ask request and its response

vars == <<docs, index, meta, cfg, model, live, last, pc, loc, found, call,
         qc, now, recent, _bm25, resp>>

\* The event loop runs the async handlers (ingest_files, ask) one at a time;
\* a worker of the thread pool runs the plain ones (ingest_all_from_folder,
\* list_documents).
Threads == {"loop", "pool"}

NoRet == [kind |-> "none", index |-> NoIndex, chunks |-> <<>>, sources |-> <<>>,
          pages |-> <<>>]

\* files: the set of file names the request named; dup: a name came twice.
Req(op, status, files, path, added, reported, removed, ret) ==
    [op |-> op, status |-> status, files |-> Range(files),
     dup |-> \E i, j \in 1..Len(files) : i # j /\ files[i] = files[j],
     path |-> path, added |-> added,
     reported |-> reported, removed |-> removed, ret |-> ret]

NoReq == Req("none", 0, <<>>, "", 0, 0, 0, NoRet)

NoRes == [ok |-> FALSE, path |-> "", index |-> NoIndex, meta |-> NoMeta, cfg |-> NoCfg,
          added |-> 0]

\* The locals of a request: what it read from the store and what it computed.
Locals(op, files, ridx, rmeta, rcfg, res) ==
    [op |-> op, files |-> files, ridx |-> ridx, rmeta |-> rmeta, rcfg |-> rcfg, res |-> res]

NoLocals == Locals("none", <<>>, NoIndex, NoMeta, NoCfg, NoRes)

\* What a call of rag.search was given and what it answered.
Found(k, filter_source, diversify, loaded, sources, status, res) ==
    [called |-> TRUE, k |-> k, filter_source |-> filter_source, diversify |-> diversify,
     loaded |-> loaded, sources |-> sources, status |-> status, merged |-> res.merged,
     hits |-> res.hits]

NoFound == [called |-> FALSE, k |-> 0, filter_source |-> <<>>, diversify |-> FALSE,
            loaded |-> FALSE, sources |-> <<>>, status |-> 0, merged |-> <<>>,
            hits |-> <<>>]

\* A function called on its own: fn names it, args holds its arguments, ret
\* its result once done.
Call(fn, args) == [fn |-> fn, args |-> args, done |-> FALSE, ret |-> <<>>]

NoCall == Call("none", <<>>)

\* The state after construction: empty docs folder, empty store.
InitStore ==
    /\ docs = [f \in Filenames |-> NoDoc]
    /\ index = NoIndex
    /\ meta = NoMeta
    /\ cfg = NoCfg
    /\ model = "e5-base"
    /\ live = {}

Init ==
    /\ InitStore
    /\ last = NoReq
    /\ pc = [t \in Threads |-> "idle"]
    /\ loc = [t \in Threads |-> NoLocals]
    /\ found = NoFound
    /\ call = NoCall
    /\ qc = AppCache
    /\ now = 0
    /\ recent = <<>>
    /\ _bm25 = NoBm25
    /\ resp = NoResp

AllIdle == \A t \in Threads : pc[t] = "idle"

\* ------------------------------------------------------------------------
\* Requests, each run to completion (one request at a time)
\* ------------------------------------------------------------------------
\* The docs folder after the uploads of one /ingest request were saved.  All
\* uploads are written before indexing starts and a later upload overwrites
\* an earlier one of the same name: up[f] is the last content uploaded as f.
SaveUploads(d, batch, up) ==
    [f \in Filenames |->
        IF f \in Range(batch) THEN [exists |-> TRUE, content |-> up[f]] ELSE d[f]]

\* What a completed build_or_update_index leaves in the store and reports.
Indexed(op, files, res) ==
    IF res.ok
    THEN /\ index' = res.index
         /\ meta' = res.meta
         /\ cfg' = res.cfg
         /\ live' = live \cup Range(MetaEntries(res.meta))
         /\ last' = Req(op, 200, files, res.path, res.added, chunks_indexed(res), 0, NoRet)
         /\ qc' = cache_clear(qc)
         /\ recent' = <<>>
    ELSE /\ UNCHANGED <<index, meta, cfg, live, qc, recent>>
         /\ last' = Req(op, 500, files, res.path, 0, 0, 0, NoRet)

\* POST /ingest
ingest_files(batch, up) ==
    /\ docs' = SaveUploads(docs, batch, up)
    /\ \E res \in {build_or_update_index(index, meta, cfg, ExtractAll(docs', batch), model)} :
          Indexed("ingest", batch, res)
    /\ UNCHANGED <<model, pc, loc, found, call, now, _bm25, resp>>

\* The orders in which glob may list the files of the docs folder.
GlobOrders(d) ==
    LET present == {f \in Filenames : d[f].exists}
    IN  {o \in [1..Cardinality(present) -> present] :
            \A i, j \in 1..Cardinality(present) : i # j => o[i] # o[j]}

\* POST /ingest/all
ingest_all_from_folder(files) ==
    /\ IF files = <<>>
       THEN /\ UNCHANGED <<index, meta, cfg, live, qc, recent>>
            /\ last' = Req("ingest_all", 400, files, "", 0, 0, 0, NoRet)
       ELSE \E res \in {build_or_update_index(index, meta, cfg, ExtractAll(docs, files),
                                                model)} :
               Indexed("ingest_all", files, res)
    /\ UNCHANGED <<docs, model, pc, loc, found, call, now, _bm25, resp>>

\* DELETE /documents/{filename}
delete_document(filename) ==
    IF ~docs[filename].exists
    THEN /\ last' = Req("delete", 404, <<filename>>, "", 0, 0, 0, NoRet)
         /\ UNCHANGED <<docs, index, meta, cfg, model, live, pc, loc, found, call, qc, now, recent, _bm25, resp>>
    ELSE /\ docs' = [docs EXCEPT ![filename] = NoDoc]
         /\ UNCHANGED <<cfg, model, pc, loc, found, call, qc, now, recent, _bm25, resp>>
         /\ \E fm \in {FilterMeta(meta, filename)} :
              IF meta.exists /\ ~fm.ok
              THEN /\ UNCHANGED <<index, meta, live>>
                   /\ last' = Req("delete", 500, <<filename>>, "", 0, 0, 0, NoRet)
              ELSE /\ meta' = IF meta.exists THEN fm.meta ELSE meta
                   /\ index' = NoIndex
                   /\ live' = {e \in live : e[2] # filename}
                   /\ last' = Req("delete", 200, <<filename>>, "", 0, 0,
                                  IF meta.exists THEN fm.removed ELSE 0, NoRet)

\* DELETE /documents
delete_all_documents ==
    /\ docs' = [f \in Filenames |-> NoDoc]
    /\ meta' = NoMeta
    /\ index' = NoIndex
    /\ live' = {}
    /\ last' = Req("delete_all", 200, <<>>, "", 0, 0, 0, NoRet)
    /\ UNCHANGED <<cfg, model, pc, loc, found, call, qc, now, recent, _bm25, resp>>

\* The index load of POST /ask (and of GET /documents).
LoadIndex ==
    \E r \in {load_index_safe(index, meta, cfg, model)} :
        /\ IF r.kind = "rebuilt"
           THEN /\ index' = r.index
                /\ meta' = [exists |-> TRUE, chunks |-> r.chunks, sources |-> r.sources,
                            pages |-> r.pages]
                /\ cfg' = [exists |-> TRUE, model_id |-> model]
           ELSE UNCHANGED <<index, meta, cfg>>
        /\ last' = Req("load",
                       CASE r.kind = "notfound" -> 400 [] r.kind = "error" -> 500
                         [] OTHER -> 200,
                       <<>>, "", 0, 0, 0, r)
        /\ UNCHANGED <<docs, model, live, pc, loc, found, call, qc, now, recent, _bm25, resp>>

\* The process is restarted with another EMBEDDING_MODEL_ID.
Reconfigure(m) ==
    /\ m # model
    /\ AllIdle
    /\ model' = m
    /\ last' = Req("config", 0, <<>>, "", 0, 0, 0, NoRet)
    /\ UNCHANGED <<docs, index, meta, cfg, live, pc, loc, found, call, qc, now, recent, _bm25, resp>>

Next ==
    \/ \E batch \in Batches : \E up \in [Range(batch) -> Contents] : ingest_files(batch, up)
    \/ \E files \in GlobOrders(docs) : ingest_all_from_folder(files)
    \/ \E f \in Filenames : delete_document(f)
    \/ delete_all_documents
    \/ LoadIndex
    \/ \E m \in Models : Reconfigure(m)

Spec == Init /\ [][Next]_vars

\* ------------------------------------------------------------------------
\* Requests step by step: every read and write of a store file is a step,
\* and a request of the event loop interleaves with one of the thread pool.
\* No lock is taken anywhere in ingest.py or around its calls in app.py.
\* ------------------------------------------------------------------------
\* The uploads of the interleaved runs: one file per request.
ConcUploads == {<<F1, <<<<T1, 1>>>>>>, <<F2, <<<<T2, 1>>>>>>}

\* A request ends: its thread is idle again.
Finish(t) ==
    /\ pc' = [pc EXCEPT ![t] = "idle"]
    /\ loc' = [loc EXCEPT ![t] = NoLocals]

Goto(t, label, l) ==
    /\ pc' = [pc EXCEPT ![t] = label]
    /\ loc' = [loc EXCEPT ![t] = l]

\* POST /ingest on the event loop: the uploads are saved, indexing starts.
IngestFilesStart(f, c) ==
    /\ pc["loop"] = "idle"
    /\ docs' = SaveUploads(docs, <<f>>, [g \in {f} |-> c])
    /\ Goto("loop", "b_cfg", Locals("ingest", <<f>>, NoIndex, NoMeta, NoCfg, NoRes))
    /\ UNCHANGED <<index, meta, cfg, model, live, last, found, call, qc, now, recent, _bm25, resp>>

\* POST /ingest/all on a pool thread: the docs folder is listed.
IngestAllStart(files) ==
    /\ pc["pool"] = "idle"
    /\ IF files = <<>>
       THEN /\ last' = Req("ingest_all", 400, files, "", 0, 0, 0, NoRet)
            /\ UNCHANGED <<pc, loc>>
       ELSE /\ Goto("pool", "b_cfg", Locals("ingest_all", files, NoIndex, NoMeta, NoCfg, NoRes))
            /\ UNCHANGED last
    /\ UNCHANGED <<docs, index, meta, cfg, model, live, found, call, qc, now, recent, _bm25, resp>>

\* build_or_update_index: prev_model_id = _load_embedder_id()
BuildReadCfg(t) ==
    /\ pc[t] = "b_cfg"
    /\ Goto(t, "b_ridx", [loc[t] EXCEPT !.rcfg = cfg])
    /\ UNCHANGED <<docs, index, meta, cfg, model, live, last, found, call, qc, now, recent, _bm25, resp>>

\* build_or_update_index: both files exist? then faiss.read_index
BuildReadIndex(t) ==
    /\ pc[t] = "b_ridx"
    /\ IF index.exists /\ meta.exists
       THEN Goto(t, "b_rmeta", [loc[t] EXCEPT !.ridx = index])
       ELSE Goto(t, "b_extract", loc[t])
    /\ UNCHANGED <<docs, index, meta, cfg, model, live, last, found, call, qc, now, recent, _bm25, resp>>

\* build_or_update_index: meta.json is read (a failed read drops prev_index)
BuildReadMeta(t) ==
    /\ pc[t] = "b_rmeta"
    /\ IF meta.exists
       THEN Goto(t, "b_extract", [loc[t] EXCEPT !.rmeta = meta])
       ELSE Goto(t, "b_extract", [loc[t] EXCEPT !.ridx = NoIndex])
    /\ UNCHANGED <<docs, index, meta, cfg, model, live, last, found, call, qc, now, recent, _bm25, resp>>

\* build_or_update_index: extraction, both dedups, embedding; a failure is
\* answered with 500.
BuildExtract(t) ==
    /\ pc[t] = "b_extract"
    /\ \E res \in {build_or_update_index(loc[t].ridx, loc[t].rmeta, loc[t].rcfg,
                                         ExtractAll(docs, loc[t].files), model)} :
          IF res.ok /\ \A f \in Range(loc[t].files) : docs[f].exists
          THEN /\ Len(res.index.vecs) <= MaxVecs
               /\ Goto(t, "s_widx",
                       Locals(loc[t].op, loc[t].files, NoIndex, NoMeta, NoCfg, res))
               /\ UNCHANGED last
          ELSE /\ Finish(t)
               /\ last' = Req(loc[t].op, 500, loc[t].files, "error", 0, 0, 0, NoRet)
    /\ UNCHANGED <<docs, index, meta, cfg, model, live, found, call, qc, now, recent, _bm25, resp>>

\* _save_index_and_meta: faiss.write_index
SaveWriteIndex(t) ==
    /\ pc[t] = "s_widx"
    /\ index' = loc[t].res.index
    /\ Goto(t, "s_wmeta", loc[t])
    /\ UNCHANGED <<docs, meta, cfg, model, live, last, found, call, qc, now, recent, _bm25, resp>>

\* _save_index_and_meta: meta.json is written
SaveWriteMeta(t) ==
    /\ pc[t] = "s_wmeta"
    /\ meta' = loc[t].res.meta
    /\ Goto(t, "s_wcfg", loc[t])
    /\ UNCHANGED <<docs, index, cfg, model, live, last, found, call, qc, now, recent, _bm25, resp>>

\* _save_index_and_meta: embedder_config.json is written; the caller returns
\* what it computed.
SaveWriteCfg(t) ==
    /\ pc[t] = "s_wcfg"
    /\ cfg' = loc[t].res.cfg
    /\ Finish(t)
    /\ IF loc[t].op = "load"
       THEN /\ last' = Req("load", 200, <<>>, "", 0, 0, 0,
                           [kind |-> "rebuilt", index |-> loc[t].res.index,
                            chunks |-> loc[t].res.meta.chunks,
                            sources |-> loc[t].res.meta.sources,
                            pages |-> loc[t].res.meta.pages])
            /\ UNCHANGED <<live, qc, recent>>
       ELSE /\ last' = Req(loc[t].op, 200, loc[t].files, loc[t].res.path, loc[t].res.added,
                           chunks_indexed(loc[t].res), 0, NoRet)
            /\ live' = live \cup Range(MetaEntries(loc[t].res.meta))
            /\ qc' = cache_clear(qc)
            /\ recent' = <<>>
    /\ UNCHANGED <<docs, index, meta, model, found, call, now, _bm25, resp>>

\* load_index_safe (ask on the event loop, list_documents on a pool thread):
\* both files must exist.
LoadStart(t) ==
    /\ pc[t] = "idle"
    /\ IF StoreLoadable(index, meta)
       THEN /\ Goto(t, "l_ridx", Locals("load", <<>>, NoIndex, NoMeta, NoCfg, NoRes))
            /\ UNCHANGED last
       ELSE /\ last' = Req("load", 400, <<>>, "", 0, 0, 0,
                           load_index_safe(index, meta, cfg, model))
            /\ UNCHANGED <<pc, loc>>
    /\ UNCHANGED <<docs, index, meta, cfg, model, live, found, call, qc, now, recent, _bm25, resp>>

\* load_index_safe: faiss.read_index
LoadReadIndex(t) ==
    /\ pc[t] = "l_ridx"
    /\ IF index.exists
       THEN /\ Goto(t, "l_rmeta", [loc[t] EXCEPT !.ridx = index])
            /\ UNCHANGED last
       ELSE /\ Finish(t)
            /\ last' = Req("load", 500, <<>>, "", 0, 0, 0, NoRet)
    /\ UNCHANGED <<docs, index, meta, cfg, model, live, found, call, qc, now, recent, _bm25, resp>>

\* load_index_safe: meta.json is read
LoadReadMeta(t) ==
    /\ pc[t] = "l_rmeta"
    /\ Goto(t, "l_rcfg", [loc[t] EXCEPT !.rmeta = meta])
    /\ UNCHANGED <<docs, index, meta, cfg, model, live, last, found, call, qc, now, recent, _bm25, resp>>

\* load_index_safe: embedder_config.json is read and the index is either
\* returned as read or rebuilt.
LoadReadCfg(t) ==
    /\ pc[t] = "l_rcfg"
    /\ IF NeedsRebuild(loc[t].ridx, cfg, model)
       THEN /\ Goto(t, "r_rmeta", [loc[t] EXCEPT !.rcfg = cfg])
            /\ UNCHANGED last
       ELSE /\ Finish(t)
            /\ last' = Req("load", 200, <<>>, "", 0, 0, 0,
                           load_index_safe(loc[t].ridx, loc[t].rmeta, cfg, model))
    /\ UNCHANGED <<docs, index, meta, cfg, model, live, found, call, qc, now, recent, _bm25, resp>>

\* rebuild_index_from_meta: meta.json is read again and re-embedded
RebuildReadMeta(t) ==
    /\ pc[t] = "r_rmeta"
    /\ \E r \in {rebuild_index_from_meta(meta, model)} :
          IF r.ok
          THEN /\ Goto(t, "s_widx",
                       Locals("load", <<>>, NoIndex, NoMeta, NoCfg,
                              [ok |-> TRUE, path |-> "rebuild", index |-> r.index,
                               meta |-> r.meta, cfg |-> r.cfg, added |-> 0]))
               /\ UNCHANGED last
          ELSE /\ Finish(t)
               /\ last' = Req("load", 500, <<>>, "", 0, 0, 0, NoRet)
    /\ UNCHANGED <<docs, index, meta, cfg, model, live, found, call, qc, now, recent, _bm25, resp>>

NextConc ==
    \/ \E u \in ConcUploads : IngestFilesStart(u[1], u[2])
    \/ \E files \in GlobOrders(docs) : IngestAllStart(files)
    \/ \E t \in Threads : BuildReadCfg(t)
    \/ \E t \in Threads : BuildReadIndex(t)
    \/ \E t \in Threads : BuildReadMeta(t)
    \/ \E t \in Threads : BuildExtract(t)
    \/ \E t \in Threads : SaveWriteIndex(t)
    \/ \E t \in Threads : SaveWriteMeta(t)
    \/ \E t \in Threads : SaveWriteCfg(t)
    \/ \E t \in Threads : LoadStart(t)
    \/ \E t \in Threads : LoadReadIndex(t)
    \/ \E t \in Threads : LoadReadMeta(t)
    \/ \E t \in Threads : LoadReadCfg(t)
    \/ \E t \in Threads : RebuildReadMeta(t)
    \/ \E m \in Models : Reconfigure(m)

SpecConc == Init /\ [][NextConc]_vars

\* ------------------------------------------------------------------------
\* A store found at start-up
\* ------------------------------------------------------------------------
\* meta.json is a plain file that is also rewritten outside the server
\* (clean_deleted_docs.py, an editor, an older version): the process may
\* start on a store whose three arrays differ in length.
FoundMetas ==
    {[exists |-> TRUE, chunks |-> <<T1, T2>>, sources |-> <<F1>>, pages |-> <<1, 1>>],
     [exists |-> TRUE, chunks |-> <<T1>>, sources |-> <<F1, F2>>, pages |-> <<1, 1>>],
     [exists |-> TRUE, chunks |-> <<T1, T1>>, sources |-> <<F1, F2>>, pages |-> <<1>>]}

InitFound ==
    /\ docs = [f \in Filenames |-> [exists |-> TRUE, content |-> <<<<T1, 1>>>>]]
    /\ meta \in FoundMetas
    /\ index = [exists |-> TRUE, d |-> Dim("e5-base"),
                vecs |-> encode_docs("e5-base", meta.chunks)]
    /\ cfg = [exists |-> TRUE, model_id |-> "e5-base"]
    /\ model = "e5-base"
    /\ live = {}
    /\ last = NoReq
    /\ pc = [t \in Threads |-> "idle"]
    /\ loc = [t \in Threads |-> NoLocals]
    /\ found = NoFound
    /\ call = NoCall
    /\ qc = AppCache
    /\ now = 0
    /\ recent = <<>>
    /\ _bm25 = NoBm25
    /\ resp = NoResp

SpecDisk == (Init \/ InitFound) /\ [][Next]_vars

\* ------------------------------------------------------------------------
\* Questions on an ingested corpus
\* ------------------------------------------------------------------------
\* settings.top_k as the environment sets it (TOP_K), at most MaxK here.
TopKs == 1..MaxK

\* The values of AskRequest.source: none, blank, a file name in either case,
\* a part of a file name, a name of no file, a name with blanks around it.
Sources == {<<>>, <<" ">>, <<"r">>, <<"R">>, <<"1">>, <<"z">>, <<" ", "r", "1">>}

\* The store after one POST /ingest on the empty store.
InitCorpus ==
    \E batch \in Batches : \E up \in [Range(batch) -> Contents] :
        \E d \in {SaveUploads([f \in Filenames |-> NoDoc], batch, up)} :
            \E res \in {build_or_update_index(NoIndex, NoMeta, NoCfg,
                                              ExtractAll(d, batch), "e5-base")} :
                /\ res.ok
                /\ docs = d
                /\ index = res.index
                /\ meta = res.meta
                /\ cfg = res.cfg
                /\ model = "e5-base"
                /\ live = Range(MetaEntries(res.meta))
                /\ last = Req("ingest", 200, batch, res.path, res.added,
                              chunks_indexed(res), 0, NoRet)
                /\ pc = [t \in Threads |-> "idle"]
                /\ loc = [t \in Threads |-> NoLocals]
                /\ found = NoFound
                /\ call = NoCall
                /\ qc = AppCache
                /\ now = 0
                /\ recent = <<>>
                /\ _bm25 = NoBm25
                /\ resp = NoResp

\* POST /ask on a cache miss, up to the passages it retrieves: the safe load
\* of the index, then rag.search with k = settings.top_k.
ask(k, source, diversify) ==
    \E r \in {load_index_safe(index, meta, cfg, model)} :
        /\ IF r.kind = "rebuilt"
           THEN /\ index' = r.index
                /\ meta' = [exists |-> TRUE, chunks |-> r.chunks, sources |-> r.sources,
                            pages |-> r.pages]
                /\ cfg' = [exists |-> TRUE, model_id |-> model]
           ELSE UNCHANGED <<index, meta, cfg>>
        /\ IF r.kind \in {"notfound", "error"}
           THEN found' = Found(k, source, diversify, FALSE, <<>>,
                               IF r.kind = "notfound" THEN 400 ELSE 500, Raised)
           ELSE \E loaded \in BOOLEAN :
                  \E res \in {search(r.index, r.chunks, k, r.sources, source, diversify,
                                     model, dense, bm25,
                                     [loaded |-> loaded, order |-> order]) :
                                dense \in Orders(1..Len(r.index.vecs), Len(r.index.vecs)),
                                bm25 \in Orders(1..Len(r.chunks), Len(r.chunks)),
                                order \in IF loaded
                                          THEN Orders(1..Len(r.chunks), Len(r.chunks))
                                          ELSE {<<>>}} :
                      found' = Found(k, source, diversify, loaded, r.sources,
                                     IF ~res.ok THEN 500
                                     ELSE IF res.hits = <<>> THEN 404 ELSE 200, res)
        /\ UNCHANGED <<docs, model, live, last, pc, loc, call, qc, now, recent, _bm25, resp>>

\* One question is put to each corpus: what rag.search answers depends on
\* the store and on the request alone.
NextSearch ==
    /\ ~found.called
    /\ \E k \in TopKs : \E source \in Sources : \E diversify \in BOOLEAN :
          ask(k, source, diversify)

SpecSearch == InitCorpus /\ [][NextSearch]_vars

\* ------------------------------------------------------------------------
\* Questions on a corpus of many chunks
\* ------------------------------------------------------------------------
\* The text of the i-th chunk of a long file.
LongText(i) == <<"c">> \o Str(i)

\* A file of n chunks, all on page 1.
LongContent(n) == [i \in 1..n |-> <<LongText(i), 1>>]

\* Chunk counts on both sides of the cuts of rag.search (10 * k candidates
\* enter the balancing) and of the reranker (64 passages are scored).
LongSizes == {1, 2, 20, 21, 64, 65}

ShortSizes == {0, 1, 2}

\* The store after one POST /ingest of r (na chunks) and, when nb > 0, of
\* r1 (nb chunks) on the empty store.
InitLong ==
    \E na \in LongSizes : \E nb \in ShortSizes :
        \E batch \in {IF nb = 0 THEN <<F1>> ELSE <<F1, F2>>} :
            \E d \in {[f \in Filenames |->
                        IF f = F1 THEN [exists |-> TRUE, content |-> LongContent(na)]
                        ELSE IF nb > 0 THEN [exists |-> TRUE, content |-> LongContent(nb)]
                        ELSE NoDoc]} :
                \E res \in {build_or_update_index(NoIndex, NoMeta, NoCfg,
                                                  ExtractAll(d, batch), "e5-base")} :
                    /\ res.ok
                    /\ docs = d
                    /\ index = res.index
                    /\ meta = res.meta
                    /\ cfg = res.cfg
                    /\ model = "e5-base"
                    /\ live = Range(MetaEntries(res.meta))
                    /\ last = Req("ingest", 200, batch, res.path, res.added,
                                  chunks_indexed(res), 0, NoRet)
                    /\ pc = [t \in Threads |-> "idle"]
                    /\ loc = [t \in Threads |-> NoLocals]
                    /\ found = NoFound
                    /\ call = NoCall
                    /\ qc = AppCache
                    /\ now = 0
                    /\ recent = <<>>
                    /\ _bm25 = NoBm25
                    /\ resp = NoResp

\* Two rankings of n items: by rising and by falling index.
Asc(n) == [i \in 1..n |-> i]

Desc(n) == [i \in 1..n |-> n + 1 - i]

Rankings(n) == {Asc(n), Desc(n)}

\* POST /ask as above, the rankings of FAISS, of BM25 and of the reranker
\* drawn from Rankings.
ask_ranked(k, source, diversify) ==
    \E r \in {load_index_safe(index, meta, cfg, model)} :
        /\ r.kind = "loaded"
        /\ \E loaded \in BOOLEAN :
             \E res \in {search(r.index, r.chunks, k, r.sources, source, diversify,
                                model, dense, bm25, [loaded |-> loaded, order |-> order]) :
                           dense \in Rankings(Len(r.index.vecs)),
                           bm25 \in Rankings(Len(r.chunks)),
                           order \in IF loaded THEN Rankings(Len(r.chunks)) ELSE {<<>>}} :
                 found' = Found(k, source, diversify, loaded, r.sources,
                                IF ~res.ok THEN 500
                                ELSE IF res.hits = <<>> THEN 404 ELSE 200, res)
        /\ UNCHANGED <<docs, index, meta, cfg, model, live, last, pc, loc, call, qc, now, recent, _bm25, resp>>

NextLong ==
    /\ ~found.called
    /\ \E k \in TopKs : \E source \in Sources : \E diversify \in BOOLEAN :
          ask_ranked(k, source, diversify)

SpecLong == InitLong /\ [][NextLong]_vars

\* ------------------------------------------------------------------------
\* Functions called on their own
\* ------------------------------------------------------------------------
\* The store stays as constructed while one function is applied to one
\* argument list.
InitCall(c) ==
    /\ InitStore
    /\ last = NoReq
    /\ pc = [t \in Threads |-> "idle"]
    /\ loc = [t \in Threads |-> NoLocals]
    /\ found = NoFound
    /\ call = c
    /\ qc = AppCache
    /\ now = 0
    /\ recent = <<>>
    /\ _bm25 = NoBm25
    /\ resp = NoResp

\* The function returns: ret is what it computed from call.args.
Return(fn, ret) ==
    /\ call.fn = fn
    /\ ~call.done
    /\ call' = [call EXCEPT !.done = TRUE, !.ret = ret]
    /\ UNCHANGED <<docs, index, meta, cfg, model, live, last, pc, loc, found,
                   qc, now, recent, _bm25, resp>>

\* _balanced_diversify on the candidates 1..n in rising or falling order,
\* every assignment of the n chunks to three files, every k up to MaxDivK.
F0 == <<"1">>

DivSources == {F0, F1, F2}

InitDiversify ==
    \E n \in 1..MaxCands : \E o \in Rankings(n) : \E srcs \in [1..n -> DivSources] :
        \E k \in 1..MaxDivK :
            InitCall(Call("_balanced_diversify",
                          [candidates |-> [i \in 1..n |-> <<o[i], "D", LongText(o[i])>>],
                           sources |-> srcs, k |-> k]))

balanced_diversify_call ==
    \E ret \in {_balanced_diversify(call.args.candidates, call.args.sources, call.args.k)} :
        Return("_balanced_diversify", ret)

SpecDiversify == InitDiversify /\ [][balanced_diversify_call]_vars

\* ------------------------------------------------------------------------
\* Prompt budget (rag.py)
\* ------------------------------------------------------------------------
\* A text is the sequence of its tokens; the tokenizer gives one token for
\* every word. Leading and trailing blanks hold no token, so a text of
\* blanks only is <<>> and strip() changes nothing.
Words(n, w) == [i \in 1..n |-> w]

_tok_len(text) == Len(text)

\* The template up to "Contexto:" and the instructions before the question,
\* in words.
HeadWords == 37

UserWords == 14

\* _format_prompt_inst: the head with the system rules, one "[i] text" block
\* for every context that is not blank, the instructions, the question and
\* the closing [/INST].
_format_prompt_inst(question, contexts) ==
    LET kept == SelectSeq([i \in 1..Len(contexts) |-> i], LAMBDA i : contexts[i] # <<>>)
        ctx_block == Flatten([j \in 1..Len(kept) |->
                                 <<"[" \o ToString(kept[j]) \o "]">> \o contexts[kept[j]]])
    IN  Words(HeadWords, "sys") \o ctx_block \o Words(UserWords, "user")
            \o question \o <<"[/INST]">>

\* int(N_CTX * 0.65)
target_prompt_budget(n_ctx) == (n_ctx * 65) \div 100

\* Mutation of build_prompt_clipped: a passage that does not fit is skipped
\* and the loop goes on with the next one.
RECURSIVE FitLater(_, _, _, _)
FitLater(n_ctx, question, texts, contexts) ==
    IF texts = <<>> THEN contexts
    ELSE IF _tok_len(_format_prompt_inst(question, Append(contexts, Head(texts))))
                <= target_prompt_budget(n_ctx)
    THEN FitLater(n_ctx, question, Tail(texts), Append(contexts, Head(texts)))
    ELSE FitLater(n_ctx, question, Tail(texts), contexts)

build_prompt_clipped_skip(n_ctx, question, passages) ==
    _format_prompt_inst(question,
        FitLater(n_ctx, question,
                 SelectSeq([i \in 1..Len(passages) |-> passages[i][3]], LAMBDA t : t # <<>>),
                 <<>>))

\* build_prompt_clipped: the passages that are not blank are added one by one
\* while the prompt stays within the budget; the first one that does not fit
\* ends the loop.
build_prompt_clipped(n_ctx, question, passages) ==
    LET texts == SelectSeq([i \in 1..Len(passages) |-> passages[i][3]],
                           LAMBDA t : t # <<>>)
        fits(m) == _tok_len(_format_prompt_inst(question, Take(texts, m)))
                       <= target_prompt_budget(n_ctx)
        n == CHOOSE m \in 0..Len(texts) :
                 /\ \A j \in 1..m : fits(j)
                 /\ m = Len(texts) \/ ~fits(m + 1)
    IN  _format_prompt_inst(question, Take(texts, n))

\* settings.n_ctx as the environment sets it (N_CTX; 1024 by default).
NCtxs == {128, 1024}

\* Token counts of the questions and of the passages.
QuestionSizes == {1, 8, 31, 32, 613, 614, 700}

PassageSizes == {0, 1, 10, 30, 300, 700}

InitPrompt ==
    \E n_ctx \in NCtxs : \E q \in QuestionSizes : \E n \in 0..MaxPassages :
        \E sizes \in [1..n -> PassageSizes] :
            InitCall(Call("build_prompt_clipped",
                          [n_ctx |-> n_ctx, question |-> Words(q, "q"),
                           passages |-> [i \in 1..n |-> <<i, "D", Words(sizes[i], "p")>>]]))

build_prompt_clipped_call ==
    \E ret \in {build_prompt_clipped(call.args.n_ctx, call.args.question,
                                     call.args.passages)} :
        Return("build_prompt_clipped", ret)

SpecPrompt == InitPrompt /\ [][build_prompt_clipped_call]_vars

\* _safe_max_new_tokens: the tokens left after the prompt and a margin of 16,
\* at most MAX_TOKENS, and never fewer than 8.
_safe_max_new_tokens(n_ctx, max_tokens_cfg, prompt, min_answer) ==
    LET used == _tok_len(prompt)
        room == Max(0, n_ctx - used - 16)
    IN  IF room < min_answer THEN Max(8, room) ELSE Min(max_tokens_cfg, room)

\* generate_answer up to the call of the model: max_new, the max_tokens it
\* hands to llm(). max_tokens is <<>> for None and <<n>> for a number.
generate_answer(n_ctx, max_tokens_cfg, prompt, max_tokens) ==
    LET first == IF max_tokens = <<>>
                 THEN _safe_max_new_tokens(n_ctx, max_tokens_cfg, prompt, 32)
                 ELSE max_tokens[1]
    IN  IF max_tokens = <<>> /\ first < 8
        THEN _safe_max_new_tokens(n_ctx, max_tokens_cfg, prompt, 8)
        ELSE first

\* settings.max_tokens as the environment sets it (MAX_TOKENS; 256 by default).
MaxTokensCfgs == {4, 256}

\* Tokens the prompt leaves free in the context window (negative: the
\* prompt is longer than N_CTX).
Rooms == {-10, 0, 7, 8, 9, 16, 23, 24, 25, 47, 48, 49, 100}

AskedTokens == {<<>>, <<1>>, <<8>>, <<64>>, <<256>>}

InitGenerate ==
    \E n_ctx \in NCtxs : \E cfgmax \in MaxTokensCfgs : \E room \in Rooms :
        \E max_tokens \in AskedTokens :
            InitCall(Call("generate_answer",
                          [n_ctx |-> n_ctx, max_tokens_cfg |-> cfgmax,
                           prompt |-> Words(n_ctx - room, "w"),
                           max_tokens |-> max_tokens]))

generate_answer_call ==
    \E ret \in {generate_answer(call.args.n_ctx, call.args.max_tokens_cfg,
                                call.args.prompt, call.args.max_tokens)} :
        Return("generate_answer", ret)

SpecGenerate == InitGenerate /\ [][generate_answer_call]_vars

\* ------------------------------------------------------------------------
\* Chunking (ingest.py)
\* ------------------------------------------------------------------------
\* _clean_text: runs of blanks become one blank, then strip().
_clean_text(s) ==
    LET keep == SelectSeq([i \in 1..Len(s) |-> i],
                          LAMBDA i : ~(s[i] = " " /\ i > 1 /\ s[i - 1] = " "))
    IN  strip([j \in 1..Len(keep) |-> s[keep[j]]])

\* _split_sentences: the text is cut at every run of blanks that follows a
\* full stop; the parts are stripped and the blank ones dropped. (The texts
\* here hold none of the protected abbreviations.)
_split_sentences(text) ==
    LET sep(i) == /\ text[i] = " "
                  /\ \E j \in 1..(i - 1) : /\ text[j] = "."
                                           /\ \A m \in (j + 1)..i : text[m] = " "
        starts == SelectSeq([i \in 1..Len(text) |-> i],
                            LAMBDA i : ~sep(i) /\ (i = 1 \/ sep(i - 1)))
        end(a) == CHOOSE e \in a..Len(text) :
                      /\ \A m \in a..e : ~sep(m)
                      /\ e = Len(text) \/ sep(e + 1)
        parts == [j \in 1..Len(starts) |-> strip(SubSeq(text, starts[j], end(starts[j])))]
    IN  SelectSeq(parts, LAMBDA q : q # <<>>)

\* " ".join(buf)
RECURSIVE Join(_)
Join(buf) ==
    IF buf = <<>> THEN <<>>
    ELSE IF Len(buf) = 1 THEN buf[1]
    ELSE buf[1] \o <<" ">> \o Join(Tail(buf))

\* sum(len(x) for x in buf) + (len(buf) - 1 if buf else 0)
JoinedLen(buf) == Len(Join(buf))

\* buf[-overlap_sents:] if overlap_sents > 0 else []
LastOf(buf, overlap_sents) ==
    IF overlap_sents > 0
    THEN SubSeq(buf, Max(1, Len(buf) - overlap_sents + 1), Len(buf))
    ELSE <<>>

\* The loop of _smart_chunk from sentence i on.
RECURSIVE ChunkLoop(_, _, _, _, _, _, _)
ChunkLoop(sents, i, out, buf, cur_len, max_chunk_size, overlap_sents) ==
    IF i > Len(sents)
    THEN IF buf # <<>> THEN Append(out, _clean_text(Join(buf))) ELSE out
    ELSE IF cur_len + Len(sents[i]) + 1 > max_chunk_size /\ buf # <<>>
    THEN LET kept == LastOf(buf, overlap_sents)
         IN  ChunkLoop(sents, i + 1, Append(out, _clean_text(Join(buf))),
                       Append(kept, sents[i]),
                       JoinedLen(kept) + Len(sents[i]) + 1,
                       max_chunk_size, overlap_sents)
    ELSE ChunkLoop(sents, i + 1, out, Append(buf, sents[i]),
                   cur_len + Len(sents[i]) + 1, max_chunk_size, overlap_sents)

\* _smart_chunk
_smart_chunk(text, max_chunk_size, overlap_sents) ==
    LET sents == _split_sentences(text)
    IN  IF sents = <<>> THEN <<>>
        ELSE SelectSeq(ChunkLoop(sents, 1, <<>>, <<>>, 0, max_chunk_size, overlap_sents),
                       LAMBDA c : strip(c) # <<>>)

\* The characters of the texts, the values of max_chunk_size (CHUNK_SIZE)
\* and of overlap_sents (CHUNK_OVERLAP // 75 or 2).
TextChars == {"a", ".", " "}

ChunkSizes == {3, 4, 5}

OverlapSents == {0, 1, 2}

InitChunk ==
    \E n \in 0..MaxText : \E text \in [1..n -> TextChars] :
        \E max_chunk_size \in ChunkSizes : \E overlap_sents \in OverlapSents :
            InitCall(Call("_smart_chunk",
                          [text |-> text, max_chunk_size |-> max_chunk_size,
                           overlap_sents |-> overlap_sents]))

smart_chunk_call ==
    \E ret \in {_smart_chunk(call.args.text, call.args.max_chunk_size,
                             call.args.overlap_sents)} :
        Return("_smart_chunk", ret)

SpecChunk == InitChunk /\ [][smart_chunk_call]_vars

\* ------------------------------------------------------------------------
\* Rankings by score (rag.py, enhanced_retrieval.py)
\* ------------------------------------------------------------------------
\* np.argsort(scores): the positions in rising score order. The default sort
\* is not stable, so the order of equal scores is the build's choice: t is
\* the order it gives them.
argsort(scores, t) ==
    LET n == Len(scores)
        before(l, j) == \/ scores[l] < scores[j]
                        \/ scores[l] = scores[j] /\ t[l] < t[j]
    IN  [i \in 1..n |-> CHOOSE j \in 1..n :
                            Cardinality({l \in 1..n : before(l, j)}) = i - 1]

\* [::-1]
Reverse(s) == [i \in 1..Len(s) |-> s[Len(s) + 1 - i]]

\* The orders of equal scores: every one for short lists, the rising and the
\* falling one for long lists.
TieOrders(n) == IF n <= MaxScored THEN Orders(1..n, n) ELSE Rankings(n)

\* BM25 and relevance scores.
ScoreVals == {0, 1, 2}

InitBm25 ==
    \E n \in 1..MaxScored : \E scores \in [1..n -> ScoreVals] : \E topn \in 1..MaxScored :
        InitCall(Call("_bm25_topk", [scores |-> scores, topn |-> topn]))

bm25_topk_call ==
    /\ call.fn = "_bm25_topk" /\ ~call.done
    /\ \E t \in TieOrders(Len(call.args.scores)) :
          \E ret \in {_bm25_topk(Reverse(argsort(call.args.scores, t)), call.args.topn)} :
              Return("_bm25_topk", ret)

SpecBm25 == InitBm25 /\ [][bm25_topk_call]_vars

\* The lists handed to the reranker: short ones with every score and every
\* order of equal scores, and lists around the cap of 64 scored passages with
\* rising or falling scores.
RerankSizes == (0..MaxScored) \cup {RerankCap, RerankCap + 1}

RerankScores(m) == IF m <= MaxScored THEN [1..m -> ScoreVals] ELSE Rankings(m)

RerankTopKs == (1..MaxScored) \cup {RerankCap + 2}

InitRerank ==
    \E n \in RerankSizes : \E o \in Rankings(n) :
        \E scores \in RerankScores(Min(RerankCap, n)) :
            \E loaded \in BOOLEAN : \E top_k \in RerankTopKs :
                InitCall(Call("rerank",
                              [passages |-> [i \in 1..n |-> <<o[i], "D", LongText(o[i])>>],
                               scores |-> scores, loaded |-> loaded, top_k |-> top_k]))

\* The last step of rag.search: ranked = rer.rerank(query, merged, top_k=k),
\* return ranked[:k].
rerank_call ==
    /\ call.fn = "rerank" /\ ~call.done
    /\ \E t \in IF call.args.loaded THEN TieOrders(Len(call.args.scores)) ELSE {<<>>} :
          \E ranked \in {rerank(call.args.passages, call.args.top_k,
                                [loaded |-> call.args.loaded,
                                 order |-> IF call.args.loaded
                                           THEN Reverse(argsort(call.args.scores, t))
                                           ELSE <<>>])} :
              Return("rerank", [ranked |-> ranked, hits |-> Take(ranked, call.args.top_k)])

SpecRerank == InitRerank /\ [][rerank_call]_vars

\* ------------------------------------------------------------------------
\* Dedup keys (ingest.py)
\* ------------------------------------------------------------------------
\* The (source, page, text) triples whose keys are compared.
HashPages == {1, 11}

HashTexts == Texts \cup {<<>>}

InitHash ==
    \E s1 \in Filenames : \E p1 \in HashPages : \E t1 \in HashTexts :
        \E s2 \in Filenames : \E p2 \in HashPages : \E t2 \in HashTexts :
            InitCall(Call("_hash_key", [a |-> <<s1, p1, t1>>, b |-> <<s2, p2, t2>>]))

hash_key_call ==
    /\ call.fn = "_hash_key" /\ ~call.done
    /\ \E ret \in {<<_hash_key(call.args.a[1], call.args.a[2], call.args.a[3]),
                     _hash_key(call.args.b[1], call.args.b[2], call.args.b[3])>>} :
          Return("_hash_key", ret)

SpecHash == InitHash /\ [][hash_key_call]_vars

\* ------------------------------------------------------------------------
\* The query cache on its own: get, set, invalidate, cleanup_expired and clear
\* of a QueryCache, as the clock advances.
\* ------------------------------------------------------------------------
MaxNow == 3
SmallSize == 2
SmallTtl == 2

CacheQuestions == {<<"x">>, <<"X">>, <<"1">>, <<"x", " ">>}
CacheSources == {<<>>, F1}
CacheValues == {[kind |-> "v1"], [kind |-> "v2"]}

InitCache ==
    /\ InitStore
    /\ last = NoReq
    /\ pc = [t \in Threads |-> "idle"]
    /\ loc = [t \in Threads |-> NoLocals]
    /\ found = NoFound
    /\ call = [NoCall EXCEPT !.ret = NoValue]
    /\ qc = QueryCache(SmallSize, SmallTtl)
    /\ now = 0
    /\ recent = <<>>
    /\ _bm25 = NoBm25
    /\ resp = NoResp

\* A method of the cache ran: call names it, its key and what it returned.
Ran(fn, key, ret, c) ==
    /\ call' = [fn |-> fn, args |-> key, done |-> TRUE, ret |-> ret]
    /\ qc' = c
    /\ recent' = Touch(recent, key, c)
    /\ UNCHANGED <<docs, index, meta, cfg, model, live, last, pc, loc, found,
                   now, _bm25, resp>>

QueryCache_get(question, source) ==
    \E res \in {cache_get(qc, _generate_key(question, source), now)} :
        Ran("QueryCache.get", _generate_key(question, source), res.value, res.qc)

QueryCache_set(question, value, source) ==
    \E c \in {cache_set(qc, _generate_key(question, source), value, now)} :
        Ran("QueryCache.set", _generate_key(question, source), NoValue, c)

QueryCache_invalidate(question, source) ==
    /\ call' = [fn |-> "QueryCache.invalidate", args |-> _generate_key(question, source),
                done |-> TRUE, ret |-> NoValue]
    /\ qc' = Without(qc, _generate_key(question, source))
    /\ recent' = SelectSeq(recent, LAMBDA k : k \in CacheKeys(qc'))
    /\ UNCHANGED <<docs, index, meta, cfg, model, live, last, pc, loc, found,
                   now, _bm25, resp>>

cleanup_expired ==
    /\ call' = [fn |-> "QueryCache.cleanup_expired", args |-> <<>>, done |-> TRUE,
                ret |-> [kind |-> "int",
                         n |-> Len(SelectSeq(qc.cache, LAMBDA e : is_expired(e, now)))]]
    /\ qc' = [qc EXCEPT !.cache = SelectSeq(qc.cache, LAMBDA e : ~is_expired(e, now))]
    /\ recent' = SelectSeq(recent, LAMBDA k : k \in CacheKeys(qc'))
    /\ UNCHANGED <<docs, index, meta, cfg, model, live, last, pc, loc, found,
                   now, _bm25, resp>>

QueryCache_clear ==
    /\ call' = [fn |-> "QueryCache.clear", args |-> <<>>, done |-> TRUE, ret |-> NoValue]
    /\ qc' = cache_clear(qc)
    /\ recent' = <<>>
    /\ UNCHANGED <<docs, index, meta, cfg, model, live, last, pc, loc, found,
                   now, _bm25, resp>>

\* datetime.utcnow() advances.
Tick ==
    /\ now < MaxNow
    /\ now' = now + 1
    /\ UNCHANGED <<docs, index, meta, cfg, model, live, last, pc, loc, found, call,
                   qc, recent, _bm25, resp>>

NextCache ==
    \/ \E q \in CacheQuestions : \E s \in CacheSources : QueryCache_get(q, s)
    \/ \E q \in CacheQuestions : \E s \in CacheSources : \E v \in CacheValues :
           QueryCache_set(q, v, s)
    \/ \E q \in CacheQuestions : \E s \in CacheSources : QueryCache_invalidate(q, s)
    \/ cleanup_expired
    \/ QueryCache_clear
    \/ Tick

SpecCache == InitCache /\ [][NextCache]_vars

\* ------------------------------------------------------------------------
\* Serving: questions through the query cache, between ingests and deletions
\* ------------------------------------------------------------------------
ServeQuestions == {<<"x">>, <<"X">>}
ServeSources == {<<>>, F1}

\* Citation(id, score, text=t[:400], page, source) of each passage.
Citations(passages, sources, pages) ==
    [j \in 1..Len(passages) |->
        [id |-> passages[j][1], text |-> Take(passages[j][3], 400),
         page |-> IF passages[j][1] <= Len(pages) THEN <<pages[passages[j][1]]>> ELSE <<>>,
         source |-> IF passages[j][1] <= Len(sources) THEN <<sources[passages[j][1]]>>
                    ELSE <<>>]]

\* AskResponse(answer, citations, cached); stamp is history, the entries of
\* the store the response was computed from.
AskResponse(citations, cached, stamp) ==
    [kind |-> "AskResponse", citations |-> citations, cached |-> cached, stamp |-> stamp]

\* rag.search gets as far as _bm25_topk.
ReachesBm25(idx, chunks, k, cur, dense) ==
    /\ chunks # <<>>
    /\ _ensure_dim_match(idx, cur)
    /\ \A i \in Range(Take(dense, Min(Max(k * 8, 80), Len(chunks)))) : i <= Len(chunks)

\* What POST /ask answered.
Answered(key, status, from_cache, r, searched, chunks) ==
    /\ resp' = [asked |-> TRUE, key |-> key, status |-> status, from_cache |-> from_cache,
                cached |-> r.cached, citations |-> r.citations, stamp |-> r.stamp,
                searched |-> searched, chunks |-> chunks]
    /\ last' = Req("ask", status, <<>>, "", 0, 0, 0, NoRet)

NoAnswer == AskResponse(<<>>, FALSE, <<>>)

\* POST /ask, search_mode "auto", k = settings.top_k.
ask_cached(question, source, k) ==
    \E got \in {cache_get(qc, _generate_key(question, source), now)} :
      IF got.hit
      THEN \* the AskResponse object that was stored is returned as it is
           /\ Answered(_generate_key(question, source), 200, TRUE, got.value, FALSE, <<>>)
           /\ qc' = got.qc
           /\ UNCHANGED <<docs, index, meta, cfg, model, live, pc, loc, found, call,
                          now, recent, _bm25>>
      ELSE
        \E r \in {load_index_safe(index, meta, cfg, model)} :
          /\ IF r.kind = "rebuilt"
             THEN /\ index' = r.index
                  /\ meta' = [exists |-> TRUE, chunks |-> r.chunks, sources |-> r.sources,
                              pages |-> r.pages]
                  /\ cfg' = [exists |-> TRUE, model_id |-> model]
             ELSE UNCHANGED <<index, meta, cfg>>
          /\ IF r.kind \in {"notfound", "error"}
             THEN /\ Answered(_generate_key(question, source),
                              IF r.kind = "notfound" THEN 400 ELSE 500, FALSE, NoAnswer,
                              FALSE, <<>>)
                  /\ qc' = got.qc
                  /\ UNCHANGED _bm25
             ELSE
               \E dense \in Rankings(Len(r.index.vecs)) :
               \E loaded \in BOOLEAN :
               \E order \in IF loaded THEN Rankings(Len(r.chunks)) ELSE {<<>>} :
               \E bm25 \in Rankings(Len(r.chunks)) :
               \E res \in {search(r.index, r.chunks, k, r.sources, source, source = <<>>,
                                  model, dense, bm25, [loaded |-> loaded, order |-> order])} :
               \E searched \in {ReachesBm25(r.index, r.chunks, k, model, dense)} :
                 /\ _bm25' = IF searched THEN _ensure_bm25(_bm25, r.chunks) ELSE _bm25
                 /\ IF res.ok /\ res.hits # <<>>
                    THEN \E response \in {AskResponse(Citations(res.hits, r.sources, r.pages),
                                                      FALSE, MetaEntries(meta'))} :
                           /\ Answered(_generate_key(question, source), 200, FALSE, response,
                                       searched, r.chunks)
                           /\ qc' = cache_set(got.qc, _generate_key(question, source),
                                              response, now)
                    ELSE /\ Answered(_generate_key(question, source),
                                     IF res.ok THEN 404 ELSE 500, FALSE, NoAnswer,
                                     searched, r.chunks)
                         /\ qc' = got.qc
          /\ UNCHANGED <<docs, model, live, pc, loc, found, call, now, recent>>

\* POST /cache/clear
clear_cache ==
    /\ qc' = cache_clear(qc)
    /\ recent' = <<>>
    /\ last' = Req("cache_clear", 200, <<>>, "", 0, 0, 0, NoRet)
    /\ UNCHANGED <<docs, index, meta, cfg, model, live, pc, loc, found, call, now,
                   _bm25, resp>>

\* One file is uploaded at a time; settings.top_k is MaxK.
NextServe ==
    \/ \E u \in ConcUploads : ingest_files(<<u[1]>>, u[1] :> u[2])
    \/ \E f \in Filenames : delete_document(f)
    \/ delete_all_documents
    \/ \E q \in ServeQuestions : \E s \in ServeSources : ask_cached(q, s, MaxK)
    \/ clear_cache

SpecServe == Init /\ [][NextServe]_vars

\* ------------------------------------------------------------------------
\* The prompt and the citations POST /ask makes of the passages it retrieved
\* ------------------------------------------------------------------------
\* Token counts of the passages and of the questions: a passage of at most 30
\* words of two characters is shorter than the 400 characters a citation keeps.
CiteSizes == {0, 1, 10, 30}

CiteQuestions == {1, 8, 20}

\* Passage i is made of the word "p<i>"; every chunk is of document r, page 1.
InitCite ==
    \E n_ctx \in NCtxs : \E q \in CiteQuestions : \E n \in 0..MaxPassages :
        \E sizes \in [1..n -> CiteSizes] :
            InitCall(Call("ask",
                          [n_ctx |-> n_ctx, question |-> Words(q, "q"),
                           passages |-> [i \in 1..n |->
                                            <<i, "D", Words(sizes[i], "p" \o ToString(i))>>],
                           sources |-> [i \in 1..n |-> F1],
                           pages |-> [i \in 1..n |-> 1]]))

\* ask, from the passages on: build_prompt_clipped, then one Citation a passage.
ask_prompt_call ==
    /\ call.fn = "ask"
    /\ ~call.done
    /\ \E ret \in {[prompt |-> build_prompt_clipped(call.args.n_ctx, call.args.question,
                                                    call.args.passages),
                    citations |-> Citations(call.args.passages, call.args.sources,
                                            call.args.pages)]} :
          Return("ask", ret)

SpecCite == InitCite /\ [][ask_prompt_call]_vars

\* ------------------------------------------------------------------------
\* Questions about one document, while documents are being added
\* ------------------------------------------------------------------------
\* settings.top_k is an int the environment sets (TOP_K); 0 is accepted.
FilterTopKs == 0..MaxK

\* AskRequest.source after validate_source: a file name, a part of one, a
\* name of no file.
FilterSources == {F1, F2, <<"1">>, <<"z">>}

\* POST /ask for one document on a cache miss, up to the passages retrieved:
\* search_mode "auto" is "single", so diversify is False.  call keeps the
\* question before this one; settings.top_k is the same for every request.
ask_filtered(k, source) ==
    /\ found.called => k = found.k
    /\ call' = [fn |-> "ask", args |-> <<>>, done |-> TRUE, ret |-> found]
    /\ \E r \in {load_index_safe(index, meta, cfg, model)} :
        /\ IF r.kind = "rebuilt"
           THEN /\ index' = r.index
                /\ meta' = [exists |-> TRUE, chunks |-> r.chunks, sources |-> r.sources,
                            pages |-> r.pages]
                /\ cfg' = [exists |-> TRUE, model_id |-> model]
           ELSE UNCHANGED <<index, meta, cfg>>
        /\ IF r.kind \in {"notfound", "error"}
           THEN found' = Found(k, source, FALSE, FALSE, <<>>,
                               IF r.kind = "notfound" THEN 400 ELSE 500, Raised)
           ELSE \E loaded \in BOOLEAN :
                  \E res \in {search(r.index, r.chunks, k, r.sources, source, FALSE,
                                     model, dense, bm25,
                                     [loaded |-> loaded, order |-> order]) :
                                dense \in Rankings(Len(r.index.vecs)),
                                bm25 \in Rankings(Len(r.chunks)),
                                order \in IF loaded THEN Rankings(Len(r.chunks))
                                          ELSE {<<>>}} :
                      found' = Found(k, source, FALSE, loaded, r.sources,
                                     IF ~res.ok THEN 500
                                     ELSE IF res.hits = <<>> THEN 404 ELSE 200, res)
    /\ UNCHANGED <<docs, model, live, last, pc, loc, qc, now, recent, _bm25, resp>>

NextFilter ==
    \/ \E u \in ConcUploads : ingest_files(<<u[1]>>, u[1] :> u[2])
    \/ \E k \in FilterTopKs : \E source \in FilterSources : ask_filtered(k, source)

SpecFilter == Init /\ [][NextFilter]_vars

\* ------------------------------------------------------------------------
\* Properties
\* ------------------------------------------------------------------------
IsIngest(r) == r.op \in {"ingest", "ingest_all"}

SameLengths(m) == Len(m.chunks) = Len(m.sources) /\ Len(m.sources) = Len(m.pages)

Count(e, s) == Cardinality({i \in 1..Len(s) : s[i] = e})

\* The entries that extraction yields for a set of files of a docs folder.
EntriesOf(d, files) == UNION {Range(_extract_file_chunks(d, f)) : f \in files}

\* C1: every entry that an ingest persisted and whose document was not
\* deleted is in the persisted metadata.
C1_IngestedChunksPersist ==
    \A e \in live : meta.exists /\ e \in Range(MetaEntries(meta))

\* C2: every step that writes meta.json writes three arrays of one length; a
\* request that would persist arrays of different lengths leaves meta.json
\* as it was.
C2_PersistKeepsLengths ==
    [][(meta' # meta /\ meta'.exists) => SameLengths(meta')]_vars

C2_Witness ==
    /\ last.op = "delete" /\ last.status = 200 /\ last.removed > 0
    /\ meta.exists /\ Len(meta.chunks) > 0

\* C3: what load_index_safe returns holds as many vectors as chunks, and
\* vectors of the dimension of the configured encoder.
C3_LoadedIndexMatchesMeta ==
    (last.op = "load" /\ last.ret.kind \in {"loaded", "rebuilt"}) =>
        /\ Len(last.ret.index.vecs) = Len(last.ret.chunks)
        /\ last.ret.index.d = Dim(model)

\* C4: with an index present and the model unchanged, an ingest of files
\* whose extracted entries are all in the metadata leaves the three arrays
\* and the vector count as they were; an ingest that names a file twice
\* leaves every entry of its files at most once in the metadata.
C4_DedupIdempotent ==
    [][(IsIngest(last') /\ last'.status = 200) =>
          /\ (/\ index.exists /\ meta.exists /\ cfg.exists /\ cfg.model_id = model
              /\ EntriesOf(docs', last'.files) \subseteq Range(MetaEntries(meta)))
                => (/\ meta' = meta
                    /\ Len(index'.vecs) = Len(index.vecs)
                    /\ last'.added = 0)
          /\ last'.dup =>
                \A e \in EntriesOf(docs', last'.files) : Count(e, MetaEntries(meta')) <= 1
      ]_vars

C4_Witness ==
    /\ last.op = "ingest" /\ last.status = 200 /\ last.dup
    /\ last.path = "append" /\ last.added = 0
    /\ EntriesOf(docs, last.files) # {}

\* C5: the count an ingest reports as newly indexed is the number of chunks
\* that ingest added (0 for an unchanged file).
C5_ReportedIsAdded ==
    (IsIngest(last) /\ last.status = 200) => last.reported = last.added

\* C6: when a persisted index exists and the model id on record differs from
\* the configured one, load_index_safe rebuilds: every chunk of the metadata
\* is re-embedded with the configured model, the vector count is the chunk
\* count, the id on record is the configured id and the three arrays are as
\* before.
C6_ModelChangeRebuilds ==
    [][(/\ last'.op = "load"
        /\ index.exists /\ meta.exists /\ cfg.exists /\ cfg.model_id # model) =>
          /\ last'.ret.kind = "rebuilt"
          /\ index'.exists
          /\ index'.vecs = [i \in 1..Len(meta.chunks) |-> <<model, meta.chunks[i]>>]
          /\ index'.d = Dim(model)
          /\ Len(index'.vecs) = Len(meta'.chunks)
          /\ cfg'.exists /\ cfg'.model_id = model
          /\ meta' = meta
          /\ last'.ret.index = index' /\ last'.ret.chunks = meta.chunks
          /\ last'.ret.sources = meta.sources /\ last'.ret.pages = meta.pages
      ]_vars

C6_Witness ==
    /\ last.op = "load" /\ last.ret.kind = "rebuilt"
    /\ Len(last.ret.chunks) > 1
    /\ cfg.model_id = model

\* C7: a successful delete_document(filename) leaves in the metadata exactly
\* the entries of the other documents, in their order: the count drops by
\* the number of entries of that document.
C7_DeleteRemovesOnlyThatDocument ==
    [][(last'.op = "delete" /\ last'.status = 200 /\ meta.exists) =>
          \A f \in last'.files :
             /\ meta'.exists /\ SameLengths(meta')
             /\ MetaEntries(meta') = SelectSeq(MetaEntries(meta), LAMBDA e : e[2] # f)
             /\ Len(meta'.chunks) = Len(meta.chunks) - Count(f, meta.sources)
             /\ last'.removed = Count(f, meta.sources)
      ]_vars

C7_Witness ==
    /\ last.op = "delete" /\ last.status = 200
    /\ last.removed = 2
    /\ meta.exists /\ Len(meta.chunks) > 0

\* C8: the load that follows a successful delete_document that left other
\* documents in the metadata rebuilds the index and returns it over the
\* remaining chunks.
C8_LoadAfterDeleteRebuilds ==
    [][(/\ last.op = "delete" /\ last.status = 200
        /\ meta.exists /\ Len(meta.chunks) > 0
        /\ last'.op = "load") =>
          /\ last'.ret.kind = "rebuilt"
          /\ last'.ret.chunks = meta.chunks
          /\ Len(last'.ret.index.vecs) = Len(meta.chunks)
      ]_vars

\* C9: once the interleaved requests have all completed, the metadata holds
\* the entries of every completed ingest and the index holds one vector per
\* chunk.
C9_WritesSerialized ==
    AllIdle =>
        /\ \A e \in live : meta.exists /\ e \in Range(MetaEntries(meta))
        /\ (index.exists /\ meta.exists) => Len(index.vecs) = Len(meta.chunks)

\* C10: a search filtered by X, where X is, case aside, the file name of an
\* indexed document, returns at most k chunks and every one of them is a chunk
\* of that document: a document whose name only contains X contributes
\* nothing while a file name equal to X is indexed.
C10_FilteredSearchStaysInDocument ==
    LET X == lower(found.filter_source)
    IN  (found.called /\ found.status = 200
         /\ \E s \in Range(found.sources) : lower(s) = X)
        => /\ Len(found.hits) <= found.k
           /\ \A h \in Range(found.hits) : lower(found.sources[h[1]]) = X

\* C11: in a search filtered by a file name, with a relevance model loaded,
\* every indexed chunk of that file is among the passages the reranker
\* scores, however many chunks the file has.
C11_RerankerScoresWholeDocument ==
    LET fs == lower(strip(found.filter_source))
    IN  (found.called /\ found.status = 200 /\ fs # <<>> /\ found.loaded) =>
            \A i \in 1..Len(found.sources) :
                lower(found.sources[i]) = fs =>
                    \E c \in Range(pairs(found.merged)) : c[1] = i

\* The sources the candidates of a _balanced_diversify call span, and how
\* many of the returned candidates are of source s.
Spanned(a) == {a.sources[c[1]] : c \in Range(a.candidates)}

FromSource(ret, a, s) == Cardinality({i \in 1..Len(ret) : a.sources[ret[i][1]] = s})

\* C12: of the candidates _balanced_diversify returns, no source has more
\* than ceil(k / S) + 1, S being the number of sources the candidates span.
C12_NoSourceAboveShare ==
    (call.fn = "_balanced_diversify" /\ call.done) =>
        LET S == Cardinality(Spanned(call.args))
        IN  \A s \in Spanned(call.args) :
                FromSource(call.ret, call.args, s) <= ((call.args.k + S - 1) \div S) + 1

\* Candidates of source s among those of the call.
CandsOf(a, s) == Cardinality({i \in 1..Len(a.candidates) : a.sources[a.candidates[i][1]] = s})

\* C12 (amended): a source has more than ceil(k / S) of the returned
\* candidates only when another source has fewer than ceil(k / S)
\* candidates and all of them are returned.
C12_ShareUnlessExhausted ==
    (call.fn = "_balanced_diversify" /\ call.done) =>
        LET S == Cardinality(Spanned(call.args))
            share == (call.args.k + S - 1) \div S
        IN  \A s \in Spanned(call.args) :
                FromSource(call.ret, call.args, s) > share =>
                    \E t \in Spanned(call.args) \ {s} :
                        /\ CandsOf(call.args, t) < share
                        /\ FromSource(call.ret, call.args, t) = CandsOf(call.args, t)

\* A call over two sources or more has returned, and one source has more
\* than ceil(k / S) + 1 of the returned candidates.
C12_Witness ==
    /\ call.fn = "_balanced_diversify" /\ call.done
    /\ LET S == Cardinality(Spanned(call.args))
       IN  /\ S >= 2
           /\ \E s \in Spanned(call.args) :
                  FromSource(call.ret, call.args, s) > ((call.args.k + S - 1) \div S) + 1

\* C13: a search of the whole corpus with diversification, for at least as
\* many passages as the index has sources, returns a chunk of every source.
C13_EverySourceRepresented ==
    (/\ found.called /\ found.status = 200
     /\ strip(found.filter_source) = <<>>
     /\ found.diversify
     /\ found.k >= Cardinality(Range(found.sources))) =>
        \A s \in Range(found.sources) :
            \E h \in Range(found.hits) : found.sources[h[1]] = s

\* C14: the prompt build_prompt_clipped returns has at most int(0.65 * N_CTX)
\* tokens, whatever the question and the passages.
C14_PromptWithinBudget ==
    (call.fn = "build_prompt_clipped" /\ call.done) =>
        _tok_len(call.ret) <= target_prompt_budget(call.args.n_ctx)

\* C15: the max_tokens generate_answer hands to the model plus the tokens
\* of the prompt is at most N_CTX, whether the value comes from
\* _safe_max_new_tokens or from the caller.
C15_OutputFitsContext ==
    (call.fn = "generate_answer" /\ call.done) =>
        call.ret + _tok_len(call.args.prompt) <= call.args.n_ctx

\* C16: a load from a store whose meta.json holds chunks, sources and pages
\* of different lengths ends in an error; it returns no arrays.
C16_UnequalMetaFailsLoad ==
    [][(/\ last'.op = "load" /\ last' # last
        /\ StoreLoadable(index, meta) /\ ~SameLengths(meta))
          => last'.status # 200]_vars

\* C17: an /ingest request one of whose files yields no text is answered
\* with an error, with or without an index in the store.
C17_EmptyFileIsAnError ==
    [][(/\ last'.op = "ingest" /\ last' # last
        /\ \E f \in last'.files : _extract_file_chunks(docs', f) = <<>>)
          => last'.status # 200]_vars

\* C18: every chunk _smart_chunk returns has at most max_chunk_size
\* characters.
C18_ChunkWithinMaxSize ==
    (call.fn = "_smart_chunk" /\ call.done) =>
        \A c \in Range(call.ret) : Len(c) <= call.args.max_chunk_size

\* C19: _bm25_topk returns the n indices of highest score, in falling score
\* order, and of two chunks of equal score the one of smaller index first.
C19_Bm25TopkOrder ==
    (call.fn = "_bm25_topk" /\ call.done) =>
        LET scores == call.args.scores
            ret == call.ret
            rest == (1..Len(scores)) \ Range(ret)
        IN  /\ Len(ret) = Min(call.args.topn, Len(scores))
            /\ \A i, j \in 1..Len(ret) :
                  i < j => \/ scores[ret[i]] > scores[ret[j]]
                           \/ scores[ret[i]] = scores[ret[j]] /\ ret[i] < ret[j]
            /\ \A i \in 1..Len(ret) : \A l \in rest :
                  \/ scores[ret[i]] > scores[l]
                  \/ scores[ret[i]] = scores[l] /\ ret[i] < l

\* The score the relevance model gave passage c of the call.
ScoreOf(a, c) == a.scores[CHOOSE i \in 1..Len(a.passages) : a.passages[i] = c]

\* C20: rerank returns distinct elements of its input: with a relevance
\* model loaded the top_k of highest score among the scored passages, in
\* falling score order; with none the first top_k in input order. search
\* returns that list cut to k.
C20_RerankReturnsTopK ==
    (call.fn = "rerank" /\ call.done) =>
        LET a == call.args
            ranked == call.ret.ranked
            scored == Range(pairs(a.passages))
        IN  /\ Range(ranked) \subseteq Range(a.passages)
            /\ \A i, j \in 1..Len(ranked) : i # j => ranked[i] # ranked[j]
            /\ (a.loaded /\ a.passages # <<>>) =>
                  /\ Len(ranked) = Min(a.top_k, Cardinality(scored))
                  /\ Range(ranked) \subseteq scored
                  /\ \A i, j \in 1..Len(ranked) :
                        i < j => ScoreOf(a, ranked[i]) >= ScoreOf(a, ranked[j])
                  /\ \A c \in scored \ Range(ranked) : \A i \in 1..Len(ranked) :
                        ScoreOf(a, ranked[i]) >= ScoreOf(a, c)
            /\ ~a.loaded => ranked = Take(a.passages, a.top_k)
            /\ call.ret.hits = Take(ranked, a.top_k)

\* A loaded model has ranked three passages or more, and the list returned
\* is not the head of the input.
C20_Witness ==
    /\ call.fn = "rerank" /\ call.done /\ call.args.loaded
    /\ Len(call.args.passages) >= 3
    /\ Len(call.ret.ranked) >= 2
    /\ call.ret.ranked # Take(call.args.passages, call.args.top_k)

\* The passages of a build_prompt_clipped call that are not blank, the
\* context block of the prompt it returned, and the block that holds the
\* first n of those passages.
NonBlank(a) == SelectSeq([i \in 1..Len(a.passages) |-> a.passages[i][3]], LAMBDA t : t # <<>>)

ContextOf(a, prompt) ==
    SubSeq(prompt, HeadWords + 1, Len(prompt) - (UserWords + Len(a.question) + 1))

BlockOf(texts, n) == Flatten([j \in 1..n |-> <<"[" \o ToString(j) \o "]">> \o texts[j]])

\* C24: the context of the prompt build_prompt_clipped returns is a prefix, in
\* ranked order, of the passages that are not blank, and it ends at the first
\* passage that would take the prompt over the budget.
C24_ContextIsPrefix ==
    (call.fn = "build_prompt_clipped" /\ call.done) =>
        LET texts == NonBlank(call.args)
            budget == target_prompt_budget(call.args.n_ctx)
        IN  \E n \in 0..Len(texts) :
                /\ ContextOf(call.args, call.ret) = BlockOf(texts, n)
                /\ n > 0 => _tok_len(call.ret) <= budget
                /\ n < Len(texts) => _tok_len(call.ret) + 1 + Len(texts[n + 1]) > budget

\* A passage was rejected and a later, smaller one that would have fitted
\* was left out.
C24_Witness ==
    /\ call.fn = "build_prompt_clipped" /\ call.done
    /\ LET texts == NonBlank(call.args)
           budget == target_prompt_budget(call.args.n_ctx)
       IN  \E n \in 0..Len(texts) : \E j \in 1..Len(texts) :
               /\ ContextOf(call.args, call.ret) = BlockOf(texts, n)
               /\ j > n + 1
               /\ _tok_len(call.ret) + 1 + Len(texts[j]) <= budget

\* The round in which a candidate of a _balanced_diversify call has its
\* turn: its position among the candidates of its own source.
RoundOf(a, c) ==
    LET i == CHOOSE p \in 1..Len(a.candidates) : a.candidates[p] = c
    IN  Cardinality({j \in 1..i : a.sources[a.candidates[j][1]] = a.sources[c[1]]})

\* c has its turn before d: an earlier round, or the same round and a source
\* that comes first in the alphabet.
TurnBefore(a, c, d) ==
    \/ RoundOf(a, c) < RoundOf(a, d)
    \/ /\ RoundOf(a, c) = RoundOf(a, d)
       /\ StrLess(a.sources[c[1]], a.sources[d[1]])

\* C25: _balanced_diversify returns the first k candidates of the round-robin
\* over the sources in alphabetical order: min(k, candidates) of them, none
\* twice, and from k different sources when the candidates span k or more.
C25_RoundRobinPrefix ==
    (call.fn = "_balanced_diversify" /\ call.done) =>
        LET a == call.args
            ret == call.ret
        IN  /\ Len(ret) = Min(a.k, Len(a.candidates))
            /\ Range(ret) \subseteq Range(a.candidates)
            /\ \A i, j \in 1..Len(ret) : i < j => TurnBefore(a, ret[i], ret[j])
            /\ \A c \in Range(a.candidates) \ Range(ret) :
                  \A i \in 1..Len(ret) : TurnBefore(a, ret[i], c)
            /\ Cardinality(Spanned(a)) >= a.k =>
                  Cardinality({a.sources[c[1]] : c \in Range(ret)}) = a.k

\* A call over two sources or more returned something else than the head of
\* its candidates, with a second round taken.
C25_Witness ==
    /\ call.fn = "_balanced_diversify" /\ call.done
    /\ Cardinality(Spanned(call.args)) >= 2
    /\ call.ret # Take(call.args.candidates, call.args.k)
    /\ \E c \in Range(call.ret) : RoundOf(call.args, c) >= 2

\* C30: two (source, page, text) triples give _hash_key the same input only
\* when they are the same triple.
C30_KeyDistinguishesTriples ==
    (call.fn = "_hash_key" /\ call.done) =>
        (call.ret[1] = call.ret[2] => call.args.a = call.args.b)

\* C21: when the cache is at max_size and a key it does not hold is set,
\* exactly one entry leaves the cache and it is the one used (set or read by
\* get) least recently.  No entry has expired at that moment.
C21_EvictsLeastRecentlyUsed ==
    [][(/\ qc' # qc
        /\ call'.fn = "QueryCache.set"
        /\ Len(qc.cache) >= qc.max_size
        /\ call'.args \notin CacheKeys(qc)
        /\ \A i \in 1..Len(qc.cache) : ~is_expired(qc.cache[i], now))
       => CacheKeys(qc) \ CacheKeys(qc') = {recent[1]}]_vars

\* C22: a response that POST /ask served from the query cache has cached =
\* TRUE, and a response it generated has cached = FALSE.
C22_CachedFlagTellsOrigin ==
    (last.op = "ask" /\ resp.status = 200) => (resp.cached <=> resp.from_cache)

\* C26: a response that POST /ask serves from the query cache was computed
\* from the entries the store holds now, and none of its citations names a
\* document that was deleted since.
C26_NoStaleCachedResponse ==
    (last.op = "ask" /\ resp.from_cache) =>
        /\ resp.stamp = MetaEntries(meta)
        /\ \A i \in 1..Len(resp.citations) :
              \E e \in live : <<e[2]>> = resp.citations[i].source

\* C27: when rag.search scored the query with BM25, the BM25 index was the
\* one built from the chunk list passed to that search.
C27_Bm25BuiltFromSearchedChunks ==
    (last.op = "ask" /\ resp.searched) => _bm25.corpus = resp.chunks

\* C28: every citation of the response is of a passage whose text is in the
\* context of the prompt, and citation i is of the passage numbered [i] there.
C28_CitationsAreThePromptPassages ==
    (call.fn = "ask" /\ call.done) =>
        LET texts == NonBlank(call.args)
        IN  \E n \in 0..Len(texts) :
                /\ ContextOf(call.args, call.ret.prompt) = BlockOf(texts, n)
                /\ Len(call.ret.citations) <= n
                /\ \A i \in 1..Len(call.ret.citations) :
                      call.args.passages[call.ret.citations[i].id][3] = texts[i]

\* The detail of the 404 of POST /ask.
Detail(source) ==
    <<"No hay pasajes relevantes en ",
      IF source # <<>> THEN "el documento " ELSE "el corpus", source, " para esta pregunta">>

\* search ran on a loaded index and no source of the metadata matches the
\* requested document.
IsNotFound(f) ==
    /\ f.called /\ f.status \in {200, 404}
    /\ ~\E i \in 1..Len(f.sources) : SourceMatches(f.sources[i], lower(strip(f.filter_source)))

\* The requested document is in the metadata and no passage came back.
IsEmptyResult(f) ==
    /\ f.called /\ f.status \in {200, 404}
    /\ \E i \in 1..Len(f.sources) : SourceMatches(f.sources[i], lower(strip(f.filter_source)))
    /\ f.hits = <<>>

\* C23: of two questions about the same document, one asked while the
\* document was not in the metadata and one that retrieved no passage of the
\* document, the responses differ in status or in detail.
C23_NotFoundDiffersFromEmptyResult ==
    (/\ call.fn = "ask" /\ found.called
     /\ call.ret.filter_source = found.filter_source
     /\ IsNotFound(call.ret) /\ IsEmptyResult(found)) =>
        \/ call.ret.status # found.status
        \/ Detail(call.ret.filter_source) # Detail(found.filter_source)

\* C29: the index and the chunk list a load returns are of one persist: they
\* have the same number of entries, and every vector of the index is the
\* embedding of the chunk at its position in the chunk list.
C29_LoadSeesOnePersist ==
    (last.op = "load" /\ last.ret.kind \in {"loaded", "rebuilt"}) =>
        \A i \in 1..Max(Len(last.ret.index.vecs), Len(last.ret.chunks)) :
            /\ i <= Len(last.ret.index.vecs)
            /\ i <= Len(last.ret.chunks)
            /\ last.ret.index.vecs[i][2] = last.ret.chunks[i]

================================================================
